---- MODULE Spec2Model ----
(***************************************************************************)
(* stats/.drafts/sa.py  : simulated annealing over a 100x100 energy grid   *)
(* stats/.drafts/gmm.py : EM for a Gaussian mixture model                  *)
(*                                                                         *)
(* Floating-point quantities are held as scaled integers:                  *)
(*   energies and exponent arguments in 1/Milli, probabilities and uniform *)
(*   draws in 1/Micro, the temperature in 1/TUnit.  Products are arranged  *)
(*   so that every intermediate value stays below 2^31.  The mixture model *)
(*   is computed in a binary floating point with a 24-bit mantissa, and    *)
(*   its normalisation identity also in exact fractions.                   *)
(*                                                                         *)
(* sim_anneal, apply_em and the exact E/M step are followed one at a time: *)
(* SpecSA, SpecEM and SpecW each run one of them and leave the state of    *)
(* the other two as it is before their call.                               *)
(***************************************************************************)
EXTENDS Integers, Sequences, FiniteSets, TLC

Milli == 10^3
Micro == 10^6
TUnit == 10^5
\* what an overflowing exp() evaluates to (inf): larger than every probability
Huge == 2^31 - 1

Min(a, b) == IF a <= b THEN a ELSE b
Max(a, b) == IF a >= b THEN a ELSE b
Abs(a) == IF a < 0 THEN -a ELSE a
\* a / b rounded towards zero, for either sign of a (b > 0)
QuotT(a, b) == IF a >= 0 THEN a \div b ELSE -((-a) \div b)
\* floor(a * b / Micro) for 0 <= a, b without forming a * b
MulMicro(a, b) ==
  LET a1 == a \div Milli  a0 == a % Milli
      b1 == b \div Milli  b0 == b % Milli
  IN a1 * b1 + (a1 * b0 + a0 * b1 + (a0 * b0) \div Milli) \div Milli

(***************************************************************************)
(* exp                                                                     *)
(***************************************************************************)
\* exp(-q) in 1/Micro for q = 0, 1, 2, ...; it underflows to 0 from q = 15 on
ExpNegInt ==
  <<1000000, 367879, 135335, 49787, 18316, 6738, 2479, 912, 335, 123, 45, 17, 6, 2, 1>>
\* the k-th and later terms of the series of exp(-r/Milli), 0 <= r < Milli
RECURSIVE ExpSeries(_, _, _)
ExpSeries(r, k, term) ==
  IF term = 0 THEN 0
  ELSE term - ExpSeries(r, k + 1, (term * r) \div (k * Milli))
\* exp(-z/Milli) in 1/Micro, z >= 0
ExpNeg(z) ==
  LET q == z \div Milli
      r == z % Milli
  IN IF q >= Len(ExpNegInt) THEN 0
     ELSE MulMicro(ExpNegInt[q + 1], ExpSeries(r, 1, Micro))
\* exp(w/Milli) in 1/Micro, either sign; Huge once the result overflows
Exp(w) ==
  IF w <= 0 THEN ExpNeg(-w)
  ELSE IF ExpNeg(w) = 0 THEN Huge
  ELSE ((Milli * Micro) \div ExpNeg(w)) * Milli

(***************************************************************************)
(* sa.py: the energy landscape                                             *)
(***************************************************************************)
n == 100
\* energy[r, c] = -log(pdf[r, c] / pdf.max()) in 1/Milli, row r+1, column c+1,
\* pdf[j, i] = abs_peaks_func(-3 + 6 i / (n-1), -3 + 6 j / (n-1))
energyTab ==
  <<<<11706, 11391, 11085, 10788, 10500, 10222, 9953, 9694, 9445, 9206, 8977, 8760, 8553, 8359, 8177, 8008, 7853, 7714, 7591, 7488, 7408, 7353, 7332, 7356, 7443, 7636, 8054, 9455, 8293, 7291, 6701, 6262, 5905, 5602, 5337, 5102, 4891, 4701, 4529, 4373, 4233, 4106, 3992, 3891, 3801, 3722, 3654, 3597, 3550, 3512, 3485, 3468, 3460, 3461, 3471, 3491, 3520, 3558, 3605, 3661, 3725, 3799, 3881, 3972, 4072, 4181, 4299, 4425, 4560, 4704, 4857, 5018, 5189, 5368, 5557, 5755, 5961, 6177, 6403, 6638, 6882, 7137, 7401, 7675, 7960, 8256, 8563, 8881, 9211, 9555, 9912, 10283, 10670, 11076, 11501, 11949, 12427, 12940, 13502, 14138>>,
    <<11487, 11173, 10867, 10571, 10283, 10005, 9737, 9479, 9230, 8992, 8765, 8549, 8344, 8151, 7971, 7804, 7652, 7516, 7398, 7300, 7226, 7181, 7174, 7216, 7336, 7594, 8200, 9865, 7613, 6840, 6322, 5918, 5582, 5292, 5037, 4809, 4604, 4418, 4250, 4097, 3959, 3834, 3722, 3622, 3534, 3456, 3389, 3333, 3286, 3250, 3223, 3206, 3199, 3200, 3211, 3232, 3261, 3299, 3346, 3402, 3467, 3541, 3623, 3715, 3815, 3923, 4041, 4167, 4303, 4447, 4599, 4761, 4932, 5111, 5300, 5497, 5704, 5920, 6145, 6380, 6624, 6879, 7143, 7417, 7702, 7997, 8304, 8622, 8952, 9295, 9652, 10023, 10410, 10814, 11239, 11687, 12163, 12674, 13234, 13866>>,
    <<11277, 10962, 10657, 10361, 10074, 9796, 9529, 9271, 9023, 8786, 8560, 8344, 8141, 7950, 7771, 7607, 7458, 7325, 7211, 7119, 7052, 7017, 7023, 7087, 7245, 7586, 8536, 8331, 7098, 6448, 5978, 5600, 5280, 5001, 4753, 4531, 4330, 4148, 3983, 3833, 3697, 3574, 3463, 3365, 3277, 3201, 3135, 3079, 3033, 2998, 2971, 2955, 2948, 2950, 2961, 2982, 3011, 3050, 3097, 3153, 3218, 3292, 3375, 3466, 3566, 3675, 3793, 3919, 4055, 4199, 4352, 4513, 4684, 4863, 5052, 5250, 5456, 5672, 5898, 6133, 6377, 6631, 6895, 7170, 7454, 7750, 8057, 8375, 8705, 9048, 9405, 9776, 10163, 10568, 10992, 11441, 11917, 12429, 12990, 13624>>,
    <<11074, 10760, 10454, 10158, 9872, 9595, 9328, 9070, 8823, 8587, 8361, 8147, 7945, 7755, 7579, 7417, 7270, 7141, 7031, 6944, 6884, 6859, 6879, 6967, 7168, 7620, 9485, 7602, 6673, 6098, 5662, 5304, 4996, 4726, 4485, 4267, 4071, 3892, 3729, 3581, 3447, 3325, 3216, 3118, 3032, 2956, 2891, 2836, 2791, 2755, 2730, 2713, 2707, 2709, 2721, 2741, 2771, 2810, 2857, 2914, 2979, 3053, 3136, 3227, 3328, 3437, 3555, 3681, 3816, 3961, 4113, 4275, 4446, 4626, 4814, 5012, 5219, 5435, 5660, 5895, 6140, 6394, 6659, 6933, 7218, 7514, 7821, 8139, 8470, 8813, 9170, 9542, 9930, 10336, 10762, 11212, 11691, 12206, 12772, 13414>>,
    <<10880, 10565, 10260, 9964, 9678, 9401, 9134, 8877, 8631, 8395, 8170, 7957, 7756, 7567, 7393, 7232, 7088, 6962, 6856, 6774, 6721, 6705, 6740, 6853, 7104, 7708, 9290, 7085, 6308, 5783, 5372, 5028, 4731, 4467, 4231, 4018, 3824, 3648, 3487, 3341, 3208, 3088, 2979, 2883, 2797, 2722, 2657, 2603, 2558, 2523, 2498, 2482, 2476, 2478, 2490, 2511, 2541, 2580, 2628, 2684, 2750, 2824, 2907, 2998, 3099, 3208, 3326, 3453, 3588, 3732, 3885, 4047, 4218, 4398, 4587, 4784, 4991, 5208, 5433, 5669, 5913, 6168, 6433, 6708, 6993, 7289, 7597, 7916, 8247, 8592, 8950, 9323, 9712, 10120, 10548, 11001, 11485, 12006, 12582, 13240>>,
    <<10693, 10379, 10074, 9778, 9491, 9215, 8948, 8691, 8445, 8210, 7986, 7773, 7573, 7386, 7212, 7054, 6912, 6789, 6686, 6609, 6562, 6556, 6606, 6743, 7050, 7865, 8074, 6676, 5988, 5498, 5105, 4772, 4482, 4224, 3992, 3782, 3591, 3416, 3257, 3112, 2981, 2862, 2754, 2658, 2573, 2498, 2434, 2380, 2336, 2302, 2277, 2261, 2255, 2258, 2270, 2291, 2321, 2360, 2408, 2464, 2530, 2604, 2687, 2779, 2880, 2989, 3107, 3234, 3369, 3514, 3667, 3829, 4000, 4180, 4369, 4567, 4774, 4991, 5217, 5452, 5698, 5953, 6218, 6493, 6779, 7076, 7385, 7705, 8037, 8383, 8743, 9118, 9510, 9921, 10353, 10811, 11301, 11833, 12424, 13110>>,
    <<10516, 10201, 9895, 9599, 9313, 9036, 8770, 8513, 8267, 8032, 7809, 7597, 7397, 7211, 7038, 6881, 6741, 6620, 6521, 6448, 6407, 6409, 6472, 6635, 7000, 8124, 7451, 6336, 5705, 5239, 4859, 4535, 4250, 3997, 3768, 3560, 3371, 3198, 3040, 2896, 2766, 2647, 2540, 2445, 2360, 2286, 2222, 2168, 2125, 2090, 2066, 2050, 2044, 2047, 2059, 2081, 2111, 2150, 2198, 2255, 2320, 2395, 2478, 2570, 2670, 2780, 2898, 3025, 3161, 3305, 3459, 3621, 3792, 3972, 4162, 4360, 4568, 4785, 5011, 5247, 5493, 5749, 6015, 6291, 6578, 6876, 7185, 7507, 7841, 8189, 8551, 8929, 9324, 9739, 10177, 10642, 11142, 11689, 12305, 13038>>,
    <<10346, 10031, 9725, 9429, 9142, 8866, 8599, 8342, 8096, 7862, 7638, 7426, 7227, 7042, 6870, 6714, 6575, 6456, 6359, 6289, 6253, 6263, 6338, 6523, 6945, 8544, 7020, 6047, 5453, 5004, 4633, 4315, 4035, 3784, 3558, 3352, 3164, 2992, 2836, 2692, 2562, 2444, 2338, 2243, 2158, 2085, 2021, 1967, 1924, 1890, 1865, 1850, 1844, 1847, 1859, 1881, 1911, 1950, 1998, 2055, 2121, 2195, 2279, 2371, 2471, 2581, 2699, 2826, 2962, 3107, 3261, 3423, 3595, 3775, 3965, 4164, 4372, 4589, 4816, 5053, 5300, 5556, 5823, 6100, 6388, 6688, 6999, 7322, 7659, 8009, 8374, 8756, 9156, 9577, 10022, 10498, 11013, 11583, 12237, 13049>>,
    <<10186, 9870, 9564, 9267, 8980, 8703, 8436, 8179, 7933, 7698, 7474, 7263, 7064, 6878, 6707, 6552, 6414, 6296, 6201, 6133, 6101, 6116, 6200, 6403, 6876, 9290, 6697, 5802, 5230, 4792, 4428, 4114, 3836, 3588, 3363, 3158, 2971, 2800, 2643, 2501, 2371, 2253, 2147, 2052, 1968, 1894, 1831, 1777, 1734, 1700, 1675, 1660, 1654, 1657, 1670, 1691, 1721, 1760, 1809, 1866, 1931, 2006, 2089, 2181, 2282, 2392, 2511, 2638, 2774, 2919, 3073, 3236, 3408, 3589, 3779, 3978, 4187, 4405, 4633, 4870, 5118, 5375, 5643, 5922, 6212, 6513, 6826, 7152, 7491, 7845, 8215, 8601, 9007, 9437, 9893, 10384, 10920, 11524, 12242, 13210>>,
    <<10035, 9719, 9411, 9114, 8826, 8548, 8281, 8024, 7777, 7542, 7318, 7106, 6907, 6721, 6550, 6395, 6257, 6140, 6045, 5979, 5949, 5966, 6056, 6270, 6776, 11377, 6452, 5595, 5036, 4603, 4242, 3930, 3654, 3407, 3182, 2978, 2791, 2620, 2464, 2322, 2192, 2074, 1968, 1873, 1789, 1715, 1652, 1598, 1555, 1521, 1496, 1481, 1475, 1478, 1490, 1512, 1542, 1581, 1629, 1686, 1752, 1827, 1910, 2003, 2104, 2214, 2332, 2460, 2596, 2742, 2896, 3059, 3232, 3413, 3604, 3804, 4013, 4232, 4461, 4699, 4948, 5207, 5477, 5757, 6049, 6352, 6668, 6997, 7340, 7698, 8073, 8467, 8881, 9322, 9793, 10305, 10874, 11534, 12370, 13758>>,
    <<9894, 9577, 9268, 8970, 8681, 8402, 8134, 7876, 7629, 7393, 7168, 6956, 6756, 6570, 6398, 6243, 6105, 5987, 5892, 5826, 5795, 5813, 5904, 6121, 6636, 11010, 6273, 5425, 4868, 4437, 4077, 3765, 3489, 3241, 3017, 2812, 2626, 2455, 2298, 2156, 2026, 1908, 1801, 1706, 1622, 1548, 1484, 1431, 1387, 1352, 1328, 1312, 1306, 1310, 1322, 1343, 1373, 1413, 1461, 1518, 1584, 1659, 1742, 1835, 1936, 2046, 2165, 2293, 2429, 2575, 2730, 2894, 3067, 3249, 3440, 3641, 3851, 4071, 4301, 4541, 4791, 5051, 5323, 5605, 5900, 6206, 6526, 6859, 7206, 7570, 7952, 8355, 8781, 9237, 9730, 10274, 10896, 11658, 12777, 14782>>,
    <<9764, 9445, 9135, 8835, 8545, 8266, 7996, 7737, 7489, 7251, 7026, 6812, 6612, 6424, 6252, 6095, 5956, 5837, 5741, 5673, 5641, 5656, 5743, 5953, 6450, 9895, 6161, 5293, 4730, 4294, 3932, 3619, 3341, 3093, 2867, 2662, 2474, 2303, 2146, 2002, 1872, 1754, 1647, 1551, 1467, 1392, 1328, 1274, 1230, 1196, 1171, 1155, 1149, 1152, 1164, 1185, 1215, 1255, 1303, 1360, 1426, 1501, 1584, 1677, 1778, 1889, 2008, 2136, 2273, 2419, 2575, 2739, 2913, 3095, 3288, 3489, 3701, 3922, 4153, 4395, 4647, 4909, 5183, 5468, 5766, 6076, 6400, 6738, 7092, 7464, 7855, 8270, 8712, 9190, 9716, 10312, 11029, 12026, 15421, 12802>>,
    <<9645, 9324, 9013, 8711, 8420, 8138, 7867, 7607, 7357, 7118, 6891, 6676, 6474, 6285, 6111, 5953, 5812, 5690, 5592, 5521, 5485, 5495, 5573, 5767, 6219, 8234, 6127, 5203, 4622, 4177, 3810, 3492, 3212, 2961, 2734, 2527, 2338, 2165, 2007, 1863, 1732, 1613, 1505, 1409, 1324, 1249, 1184, 1130, 1085, 1050, 1025, 1009, 1003, 1006, 1017, 1038, 1069, 1108, 1156, 1213, 1279, 1354, 1437, 1530, 1632, 1742, 1862, 1991, 2128, 2275, 2431, 2596, 2770, 2954, 3147, 3350, 3563, 3786, 4019, 4262, 4516, 4781, 5058, 5347, 5648, 5963, 6292, 6637, 7000, 7382, 7786, 8218, 8684, 9196, 9775, 10466, 11403, 13662, 12407, 11959>>,
    <<9538, 9215, 8902, 8598, 8304, 8021, 7748, 7486, 7234, 6994, 6765, 6548, 6344, 6153, 5976, 5815, 5672, 5547, 5445, 5370, 5328, 5330, 5395, 5565, 5955, 7275, 6202, 5163, 4549, 4088, 3711, 3387, 3102, 2847, 2617, 2408, 2217, 2042, 1883, 1737, 1605, 1485, 1376, 1279, 1193, 1118, 1052, 997, 952, 917, 891, 875, 868, 870, 882, 903, 933, 972, 1020, 1077, 1143, 1218, 1302, 1395, 1496, 1607, 1727, 1856, 1994, 2142, 2298, 2464, 2640, 2824, 3019, 3223, 3438, 3662, 3897, 4143, 4400, 4668, 4949, 5242, 5549, 5869, 6206, 6560, 6933, 7329, 7752, 8209, 8711, 9280, 9958, 10874, 12970, 11933, 11454, 11353>>,
    <<9445, 9119, 8803, 8497, 8201, 7915, 7640, 7375, 7121, 6878, 6647, 6428, 6221, 6027, 5848, 5684, 5537, 5408, 5302, 5220, 5170, 5162, 5211, 5352, 5672, 6567, 6475, 5187, 4516, 4030, 3638, 3305, 3013, 2753, 2519, 2306, 2112, 1935, 1774, 1626, 1492, 1371, 1261, 1163, 1076, 999, 933, 877, 831, 795, 769, 752, 745, 747, 758, 779, 808, 847, 895, 952, 1018, 1093, 1177, 1270, 1372, 1484, 1604, 1734, 1872, 2020, 2178, 2345, 2521, 2707, 2904, 3110, 3326, 3553, 3790, 4039, 4300, 4572, 4857, 5156, 5469, 5798, 6144, 6510, 6899, 7315, 7765, 8261, 8825, 9502, 10429, 12750, 11371, 10917, 10818, 10858>>,
    <<9369, 9039, 8719, 8410, 8111, 7822, 7544, 7276, 7019, 6773, 6539, 6316, 6107, 5910, 5727, 5559, 5407, 5274, 5161, 5073, 5014, 4993, 5023, 5132, 5382, 5998, 7370, 5308, 4536, 4010, 3596, 3249, 2947, 2680, 2440, 2223, 2025, 1845, 1681, 1531, 1395, 1271, 1160, 1060, 971, 894, 827, 770, 723, 686, 659, 642, 634, 635, 646, 666, 696, 734, 782, 839, 905, 980, 1064, 1157, 1260, 1372, 1492, 1623, 1762, 1911, 2070, 2238, 2416, 2604, 2801, 3010, 3228, 3458, 3699, 3952, 4216, 4494, 4785, 5091, 5412, 5752, 6111, 6494, 6905, 7351, 7845, 8411, 9100, 10075, 14022, 10743, 10354, 10270, 10313, 10430>>,
    <<9311, 8976, 8652, 8339, 8036, 7743, 7461, 7189, 6929, 6679, 6441, 6215, 6002, 5801, 5614, 5441, 5284, 5145, 5026, 4929, 4859, 4824, 4834, 4910, 5096, 5519, 7109, 5603, 4630, 4038, 3590, 3223, 2907, 2630, 2382, 2159, 1957, 1772, 1604, 1452, 1313, 1187, 1073, 972, 881, 802, 733, 675, 627, 590, 562, 543, 535, 536, 546, 566, 595, 633, 680, 737, 803, 878, 963, 1056, 1159, 1271, 1393, 1524, 1664, 1815, 1974, 2144, 2324, 2513, 2713, 2924, 3146, 3379, 3624, 3881, 4152, 4436, 4735, 5050, 5383, 5737, 6115, 6523, 6968, 7465, 8040, 8756, 9838, 11681, 10081, 9775, 9714, 9766, 9884, 10048>>,
    <<9275, 8935, 8605, 8286, 7978, 7680, 7393, 7117, 6852, 6598, 6356, 6126, 5907, 5702, 5509, 5331, 5169, 5023, 4896, 4790, 4709, 4658, 4647, 4691, 4819, 5106, 5840, 6409, 4844, 4131, 3631, 3233, 2898, 2607, 2349, 2118, 1909, 1719, 1546, 1390, 1247, 1118, 1002, 898, 806, 725, 654, 595, 545, 506, 477, 458, 448, 449, 458, 477, 506, 544, 591, 648, 714, 789, 874, 967, 1071, 1184, 1306, 1438, 1579, 1731, 1892, 2064, 2245, 2438, 2641, 2855, 3080, 3318, 3568, 3831, 4108, 4401, 4711, 5039, 5388, 5763, 6170, 6617, 7121, 7715, 8483, 9794, 10295, 9414, 9191, 9157, 9220, 9342, 9505, 9701>>,
    <<9269, 8920, 8582, 8256, 7941, 7637, 7344, 7063, 6792, 6533, 6285, 6049, 5825, 5614, 5416, 5231, 5062, 4909, 4773, 4657, 4564, 4498, 4466, 4479, 4557, 4744, 5161, 6647, 5317, 4328, 3735, 3290, 2927, 2616, 2344, 2101, 1883, 1687, 1508, 1346, 1200, 1067, 947, 840, 745, 662, 590, 528, 477, 437, 406, 386, 375, 374, 383, 402, 430, 467, 514, 571, 637, 712, 797, 891, 995, 1109, 1232, 1365, 1508, 1661, 1824, 1998, 2182, 2377, 2584, 2802, 3032, 3275, 3532, 3803, 4090, 4394, 4718, 5065, 5439, 5846, 6299, 6817, 7445, 8307, 10295, 9300, 8762, 8610, 8604, 8678, 8805, 8970, 9164, 9382>>,
    <<9300, 8939, 8591, 8255, 7931, 7618, 7318, 7029, 6751, 6485, 6230, 5988, 5757, 5539, 5334, 5143, 4965, 4804, 4659, 4532, 4426, 4344, 4292, 4277, 4312, 4424, 4670, 5249, 7262, 4730, 3939, 3412, 3004, 2664, 2371, 2114, 1885, 1678, 1492, 1324, 1172, 1034, 911, 800, 702, 615, 540, 476, 423, 381, 349, 327, 315, 313, 321, 339, 366, 403, 450, 506, 572, 648, 733, 828, 932, 1047, 1171, 1306, 1450, 1605, 1771, 1947, 2135, 2334, 2544, 2768, 3004, 3255, 3520, 3802, 4102, 4423, 4768, 5142, 5554, 6018, 6560, 7243, 8290, 10118, 8473, 8134, 8041, 8060, 8146, 8277, 8443, 8636, 8851, 9086>>,
    <<9385, 9006, 8642, 8292, 7955, 7631, 7320, 7021, 6734, 6459, 6196, 5945, 5706, 5480, 5267, 5067, 4881, 4710, 4555, 4417, 4298, 4200, 4128, 4087, 4086, 4139, 4278, 4577, 5328, 5874, 4337, 3638, 3150, 2764, 2442, 2163, 1917, 1698, 1502, 1325, 1165, 1022, 893, 778, 675, 585, 507, 441, 385, 340, 306, 283, 269, 266, 273, 289, 316, 353, 399, 455, 521, 597, 682, 778, 883, 999, 1124, 1261, 1407, 1565, 1733, 1913, 2105, 2308, 2525, 2755, 2999, 3260, 3537, 3833, 4152, 4497, 4875, 5295, 5777, 6358, 7140, 8665, 8452, 7748, 7535, 7488, 7528, 7624, 7760, 7927, 8119, 8332, 8563, 8811>>,
    <<9557, 9147, 8756, 8384, 8027, 7686, 7360, 7047, 6747, 6460, 6186, 5925, 5676, 5440, 5218, 5008, 4812, 4630, 4464, 4314, 4181, 4068, 3977, 3912, 3879, 3887, 3953, 4109, 4440, 5310, 5391, 4068, 3409, 2941, 2569, 2257, 1988, 1751, 1541, 1353, 1184, 1032, 897, 775, 668, 574, 492, 421, 363, 315, 279, 253, 238, 233, 238, 254, 280, 316, 361, 417, 483, 559, 645, 741, 848, 965, 1092, 1231, 1380, 1541, 1713, 1897, 2094, 2304, 2528, 2767, 3022, 3296, 3590, 3908, 4255, 4639, 5074, 5584, 6229, 7206, 9640, 7488, 7094, 6966, 6954, 7012, 7117, 7256, 7424, 7614, 7824, 8052, 8295, 8553>>,
    <<9900, 9421, 8979, 8565, 8175, 7805, 7455, 7121, 6802, 6499, 6210, 5935, 5673, 5424, 5190, 4968, 4761, 4567, 4388, 4225, 4078, 3949, 3840, 3753, 3692, 3664, 3676, 3746, 3906, 4238, 5095, 5248, 3905, 3247, 2783, 2417, 2111, 1847, 1617, 1413, 1231, 1069, 925, 796, 682, 582, 495, 420, 358, 307, 268, 239, 222, 215, 219, 233, 258, 293, 338, 394, 460, 536, 623, 720, 828, 946, 1076, 1217, 1370, 1534, 1711, 1901, 2104, 2322, 2556, 2808, 3078, 3371, 3691, 4043, 4438, 4895, 5451, 6210, 7724, 7455, 6733, 6497, 6426, 6442, 6514, 6625, 6767, 6935, 7123, 7330, 7554, 7793, 8046, 8311>>,
    <<10771, 10032, 9437, 8921, 8458, 8033, 7638, 7268, 6920, 6591, 6279, 5984, 5704, 5439, 5189, 4953, 4731, 4524, 4331, 4154, 3992, 3847, 3720, 3612, 3527, 3467, 3439, 3451, 3517, 3666, 3969, 4691, 5513, 3855, 3155, 2679, 2308, 2002, 1741, 1514, 1314, 1137, 981, 842, 720, 612, 519, 439, 372, 317, 274, 242, 222, 213, 215, 227, 251, 285, 329, 385, 451, 527, 615, 713, 823, 944, 1077, 1221, 1378, 1547, 1730, 1928, 2140, 2370, 2617, 2886, 3179, 3502, 3863, 4276, 4767, 5400, 6397, 8171, 6479, 6090, 5947, 5916, 5952, 6034, 6151, 6295, 6461, 6648, 6851, 7071, 7305, 7552, 7812, 8084>>,
    <<10899, 11918, 11073, 9843, 9089, 8499, 7996, 7549, 7143, 6767, 6418, 6091, 5785, 5496, 5225, 4969, 4730, 4506, 4297, 4103, 3925, 3763, 3618, 3491, 3383, 3297, 3236, 3205, 3211, 3266, 3395, 3649, 4196, 8719, 3960, 3146, 2633, 2246, 1933, 1670, 1443, 1245, 1071, 919, 785, 668, 566, 479, 406, 346, 298, 263, 239, 227, 227, 237, 259, 292, 336, 391, 457, 535, 623, 723, 835, 959, 1095, 1244, 1406, 1582, 1774, 1981, 2206, 2452, 2720, 3015, 3344, 3719, 4158, 4704, 5478, 7274, 6393, 5754, 5521, 5437, 5435, 5486, 5575, 5695, 5839, 6004, 6188, 6388, 6602, 6831, 7073, 7327, 7593, 7870>>,
    <<9569, 9523, 9574, 9819, 10744, 10186, 8912, 8165, 7591, 7107, 6680, 6295, 5942, 5615, 5312, 5030, 4766, 4520, 4290, 4078, 3881, 3701, 3537, 3390, 3262, 3152, 3064, 3000, 2963, 2960, 3001, 3104, 3304, 3699, 4776, 4371, 3250, 2657, 2237, 1907, 1635, 1405, 1206, 1034, 884, 753, 641, 545, 463, 396, 343, 302, 275, 259, 256, 264, 284, 316, 359, 414, 480, 558, 649, 751, 865, 993, 1134, 1289, 1458, 1643, 1846, 2068, 2311, 2580, 2880, 3220, 3614, 4095, 4735, 5832, 6696, 5511, 5154, 5007, 4963, 4981, 5042, 5137, 5258, 5402, 5564, 5744, 5940, 6150, 6374, 6610, 6858, 7117, 7387, 7669>>,
    <<8911, 8754, 8631, 8551, 8535, 8621, 8922, 10093, 9071, 7930, 7232, 6693, 6238, 5839, 5481, 5154, 4854, 4577, 4321, 4084, 3866, 3664, 3481, 3314, 3165, 3033, 2921, 2829, 2760, 2717, 2704, 2730, 2806, 2957, 3238, 3826, 7128, 3547, 2776, 2291, 1930, 1641, 1401, 1198, 1025, 875, 748, 639, 547, 471, 410, 363, 330, 310, 303, 309, 326, 357, 399, 454, 520, 600, 692, 797, 915, 1048, 1195, 1358, 1537, 1736, 1954, 2197, 2468, 2776, 3131, 3557, 4104, 4926, 7896, 5400, 4857, 4633, 4540, 4522, 4554, 4622, 4720, 4841, 4983, 5142, 5319, 5509, 5714, 5932, 6162, 6403, 6656, 6920, 7194, 7479>>,
    <<8444, 8245, 8065, 7909, 7782, 7690, 7648, 7679, 7837, 8299, 11883, 7796, 6896, 6286, 5800, 5388, 5025, 4699, 4404, 4134, 3887, 3660, 3453, 3264, 3093, 2941, 2806, 2691, 2595, 2521, 2471, 2449, 2460, 2513, 2624, 2824, 3193, 4061, 4397, 3046, 2427, 2009, 1691, 1435, 1223, 1045, 895, 768, 661, 574, 503, 448, 408, 382, 371, 372, 388, 416, 457, 512, 579, 660, 755, 864, 988, 1127, 1283, 1456, 1650, 1867, 2110, 2387, 2705, 3084, 3558, 4221, 5521, 5532, 4647, 4320, 4170, 4112, 4112, 4153, 4225, 4324, 4444, 4583, 4739, 4910, 5096, 5295, 5507, 5730, 5965, 6212, 6468, 6736, 7013, 7300>>,
    <<8072, 7849, 7642, 7452, 7280, 7131, 7007, 6917, 6869, 6882, 6995, 7306, 8342, 7719, 6537, 5858, 5348, 4928, 4565, 4244, 3957, 3696, 3460, 3246, 3051, 2876, 2720, 2583, 2464, 2365, 2287, 2231, 2200, 2199, 2233, 2313, 2459, 2709, 3176, 4517, 3657, 2687, 2160, 1791, 1508, 1282, 1096, 942, 814, 709, 625, 559, 510, 477, 460, 457, 469, 495, 535, 589, 658, 741, 840, 954, 1085, 1234, 1402, 1592, 1807, 2053, 2337, 2672, 3086, 3638, 4538, 6535, 4554, 4078, 3859, 3755, 3720, 3731, 3777, 3852, 3949, 4067, 4202, 4354, 4520, 4700, 4893, 5099, 5316, 5544, 5783, 6033, 6293, 6563, 6843, 7132>>,
    <<7758, 7521, 7297, 7087, 6892, 6713, 6553, 6415, 6302, 6220, 6180, 6196, 6302, 6578, 7375, 7503, 6097, 5385, 4870, 4453, 4099, 3788, 3513, 3266, 3043, 2843, 2664, 2505, 2364, 2243, 2141, 2060, 2000, 1963, 1953, 1973, 2031, 2140, 2321, 2625, 3208, 6044, 3189, 2412, 1953, 1627, 1376, 1177, 1017, 887, 783, 702, 641, 598, 573, 564, 572, 595, 634, 689, 759, 846, 950, 1071, 1212, 1374, 1561, 1776, 2025, 2321, 2681, 3149, 3839, 5493, 4654, 3925, 3613, 3455, 3380, 3360, 3378, 3427, 3501, 3597, 3711, 3842, 3988, 4149, 4323, 4509, 4708, 4918, 5139, 5371, 5613, 5866, 6128, 6401, 6683, 6974>>,
    <<7485, 7238, 7003, 6780, 6569, 6373, 6192, 6028, 5883, 5759, 5662, 5596, 5571, 5604, 5728, 6029, 6880, 6883, 5547, 4860, 4365, 3966, 3629, 3335, 3077, 2846, 2641, 2458, 2296, 2154, 2031, 1928, 1845, 1782, 1741, 1725, 1736, 1780, 1864, 2003, 2224, 2591, 3336, 4684, 2837, 2196, 1796, 1510, 1291, 1121, 987, 883, 805, 749, 713, 697, 700, 720, 757, 812, 885, 977, 1088, 1221, 1377, 1560, 1775, 2031, 2343, 2740, 3294, 4282, 5235, 3888, 3445, 3219, 3098, 3042, 3030, 3052, 3101, 3173, 3265, 3375, 3501, 3642, 3796, 3963, 4143, 4335, 4538, 4751, 4976, 5211, 5455, 5710, 5975, 6249, 6532, 6825>>,
    <<7243, 6988, 6745, 6513, 6292, 6084, 5890, 5709, 5545, 5397, 5269, 5164, 5085, 5041, 5040, 5103, 5269, 5649, 6882, 5980, 4916, 4301, 3846, 3477, 3164, 2893, 2656, 2445, 2260, 2096, 1953, 1831, 1727, 1644, 1581, 1538, 1519, 1525, 1560, 1629, 1742, 1916, 2185, 2636, 3666, 3704, 2556, 2026, 1684, 1438, 1254, 1115, 1011, 935, 886, 859, 855, 870, 907, 963, 1040, 1139, 1262, 1410, 1590, 1807, 2072, 2408, 2860, 3568, 5747, 4036, 3371, 3056, 2880, 2782, 2737, 2729, 2752, 2800, 2869, 2956, 3061, 3181, 3315, 3462, 3623, 3795, 3979, 4175, 4381, 4598, 4825, 5062, 5309, 5565, 5831, 6107, 6392, 6686>>,
    <<7025, 6765, 6516, 6277, 6049, 5832, 5628, 5436, 5258, 5095, 4948, 4820, 4712, 4628, 4574, 4556, 4589, 4696, 4935, 5490, 8159, 5070, 4263, 3736, 3331, 2999, 2717, 2472, 2259, 2071, 1907, 1765, 1644, 1542, 1460, 1398, 1356, 1337, 1340, 1371, 1432, 1531, 1678, 1895, 2227, 2806, 4662, 3133, 2333, 1903, 1619, 1418, 1271, 1167, 1097, 1056, 1042, 1052, 1087, 1145, 1229, 1339, 1480, 1655, 1875, 2153, 2523, 3062, 4104, 4598, 3423, 2977, 2732, 2586, 2503, 2463, 2457, 2478, 2522, 2587, 2669, 2767, 2880, 3007, 3148, 3301, 3466, 3642, 3829, 4028, 4236, 4456, 4685, 4923, 5172, 5430, 5698, 5974, 6260, 6555>>,
    <<6828, 6564, 6310, 6065, 5831, 5608, 5397, 5197, 5009, 4835, 4676, 4532, 4405, 4298, 4213, 4154, 4128, 4146, 4224, 4399, 4767, 5810, 5405, 4254, 3636, 3192, 2840, 2548, 2298, 2082, 1894, 1732, 1592, 1473, 1374, 1295, 1236, 1197, 1179, 1184, 1214, 1272, 1363, 1497, 1686, 1959, 2383, 3202, 4417, 2746, 2173, 1836, 1613, 1459, 1357, 1295, 1267, 1270, 1303, 1367, 1461, 1590, 1761, 1983, 2280, 2699, 3390, 5957, 3675, 3006, 2666, 2461, 2333, 2257, 2219, 2212, 2230, 2269, 2328, 2403, 2494, 2600, 2720, 2853, 2998, 3155, 3323, 3502, 3692, 3893, 4104, 4324, 4555, 4795, 5045, 5304, 5573, 5851, 6137, 6433>>,
    <<6649, 6382, 6123, 5875, 5636, 5408, 5191, 4984, 4790, 4608, 4438, 4283, 4143, 4020, 3915, 3832, 3773, 3745, 3754, 3817, 3959, 4244, 4899, 6274, 4272, 3543, 3059, 2688, 2387, 2133, 1917, 1731, 1570, 1434, 1319, 1224, 1150, 1096, 1061, 1048, 1056, 1088, 1147, 1237, 1365, 1540, 1783, 2135, 2712, 4237, 3333, 2498, 2091, 1843, 1685, 1588, 1541, 1534, 1567, 1638, 1751, 1914, 2140, 2461, 2957, 3965, 4377, 3180, 2698, 2416, 2235, 2117, 2044, 2005, 1994, 2007, 2040, 2091, 2160, 2243, 2341, 2453, 2577, 2714, 2862, 3022, 3193, 3375, 3567, 3769, 3981, 4204, 4435, 4677, 4928, 5188, 5457, 5735, 6023, 6319>>,
    <<6486, 6216, 5954, 5702, 5460, 5228, 5006, 4794, 4594, 4405, 4229, 4066, 3916, 3781, 3663, 3562, 3482, 3426, 3398, 3405, 3460, 3585, 3827, 4331, 6467, 4319, 3455, 2930, 2543, 2235, 1980, 1765, 1581, 1425, 1293, 1184, 1095, 1027, 979, 950, 943, 957, 995, 1058, 1151, 1278, 1449, 1678, 1995, 2471, 3374, 4346, 2893, 2391, 2118, 1960, 1880, 1859, 1892, 1980, 2129, 2359, 2715, 3340, 5607, 3585, 2854, 2467, 2219, 2051, 1937, 1863, 1820, 1803, 1809, 1835, 1878, 1938, 2013, 2103, 2206, 2321, 2449, 2589, 2740, 2902, 3075, 3258, 3452, 3655, 3869, 4092, 4325, 4567, 4819, 5080, 5350, 5629, 5916, 6213>>,
    <<6338, 6065, 5801, 5546, 5300, 5065, 4839, 4623, 4419, 4225, 4043, 3873, 3716, 3572, 3444, 3331, 3236, 3160, 3108, 3083, 3091, 3144, 3260, 3479, 3909, 5161, 4390, 3367, 2805, 2406, 2094, 1839, 1626, 1448, 1297, 1171, 1069, 987, 926, 886, 866, 866, 888, 934, 1004, 1104, 1236, 1409, 1635, 1937, 2364, 3067, 5669, 3391, 2756, 2462, 2319, 2274, 2312, 2435, 2666, 3077, 3974, 4515, 3179, 2632, 2298, 2069, 1907, 1791, 1712, 1663, 1639, 1637, 1654, 1688, 1739, 1805, 1885, 1979, 2085, 2204, 2334, 2476, 2629, 2793, 2967, 3152, 3347, 3551, 3766, 3990, 4224, 4467, 4719, 4980, 5250, 5530, 5818, 6115>>,
    <<6203, 5927, 5661, 5404, 5156, 4917, 4688, 4469, 4261, 4063, 3876, 3701, 3538, 3388, 3251, 3129, 3023, 2934, 2865, 2818, 2797, 2809, 2863, 2977, 3185, 3576, 4561, 4471, 3277, 2684, 2276, 1963, 1711, 1503, 1330, 1187, 1069, 974, 901, 850, 818, 808, 818, 850, 906, 987, 1096, 1237, 1418, 1649, 1948, 2352, 2961, 4257, 4114, 3250, 2944, 2851, 2909, 3132, 3647, 5769, 3740, 2937, 2487, 2182, 1962, 1799, 1679, 1593, 1536, 1502, 1490, 1497, 1522, 1562, 1618, 1689, 1772, 1869, 1978, 2099, 2231, 2375, 2529, 2694, 2870, 3055, 3251, 3457, 3672, 3896, 4131, 4374, 4627, 4888, 5159, 5439, 5727, 6024>>,
    <<6080, 5803, 5535, 5275, 5025, 4784, 4553, 4331, 4119, 3918, 3727, 3548, 3380, 3224, 3082, 2952, 2837, 2738, 2656, 2594, 2553, 2539, 2556, 2615, 2731, 2935, 3308, 4176, 4535, 3181, 2566, 2154, 1843, 1597, 1396, 1231, 1095, 987, 902, 839, 797, 777, 777, 800, 844, 912, 1006, 1128, 1283, 1477, 1718, 2022, 2418, 2967, 3873, 6307, 4147, 3861, 4027, 4982, 4526, 3384, 2798, 2405, 2117, 1898, 1730, 1602, 1506, 1437, 1392, 1369, 1365, 1379, 1409, 1454, 1513, 1587, 1673, 1772, 1882, 2005, 2139, 2284, 2439, 2605, 2781, 2968, 3164, 3370, 3586, 3811, 4046, 4289, 4542, 4804, 5075, 5355, 5644, 5941>>,
    <<5969, 5690, 5420, 5159, 4907, 4664, 4430, 4206, 3992, 3788, 3594, 3411, 3240, 3079, 2931, 2796, 2674, 2567, 2476, 2402, 2347, 2314, 2307, 2332, 2397, 2518, 2725, 3093, 3915, 4539, 3073, 2450, 2040, 1736, 1497, 1304, 1149, 1024, 925, 851, 800, 770, 762, 776, 812, 871, 954, 1064, 1203, 1375, 1586, 1843, 2158, 2547, 3037, 3661, 4414, 4915, 4500, 3785, 3192, 2735, 2380, 2099, 1876, 1699, 1559, 1450, 1369, 1311, 1275, 1258, 1260, 1278, 1311, 1360, 1422, 1497, 1585, 1686, 1798, 1921, 2056, 2202, 2358, 2525, 2702, 2889, 3086, 3292, 3508, 3734, 3969, 4213, 4466, 4728, 4999, 5279, 5568, 5866>>,
    <<5869, 5589, 5317, 5055, 4801, 4556, 4321, 4095, 3878, 3672, 3475, 3290, 3114, 2951, 2798, 2658, 2531, 2418, 2319, 2236, 2170, 2124, 2100, 2101, 2134, 2208, 2338, 2553, 2927, 3748, 4438, 2953, 2336, 1935, 1640, 1411, 1230, 1085, 972, 885, 824, 786, 770, 776, 805, 857, 933, 1035, 1164, 1324, 1518, 1750, 2026, 2349, 2720, 3114, 3452, 3580, 3420, 3091, 2733, 2408, 2130, 1898, 1707, 1552, 1428, 1331, 1258, 1208, 1178, 1166, 1171, 1192, 1228, 1278, 1342, 1419, 1508, 1610, 1723, 1847, 1983, 2129, 2286, 2453, 2631, 2818, 3015, 3222, 3438, 3664, 3899, 4143, 4397, 4659, 4930, 5211, 5500, 5797>>,
    <<5779, 5498, 5226, 4962, 4706, 4460, 4223, 3995, 3777, 3569, 3370, 3182, 3004, 2837, 2681, 2537, 2406, 2287, 2182, 2092, 2018, 1962, 1924, 1909, 1921, 1964, 2048, 2189, 2417, 2809, 3668, 4222, 2821, 2225, 1839, 1557, 1341, 1173, 1041, 941, 868, 821, 797, 797, 820, 867, 938, 1034, 1157, 1310, 1495, 1714, 1971, 2264, 2583, 2895, 3126, 3183, 3042, 2780, 2487, 2210, 1965, 1757, 1583, 1440, 1325, 1236, 1169, 1123, 1096, 1087, 1095, 1118, 1156, 1207, 1273, 1351, 1441, 1543, 1657, 1782, 1918, 2065, 2222, 2390, 2568, 2755, 2953, 3160, 3376, 3602, 3837, 4082, 4335, 4598, 4869, 5149, 5438, 5736>>,
    <<5700, 5418, 5144, 4879, 4623, 4375, 4137, 3908, 3688, 3477, 3277, 3086, 2906, 2737, 2578, 2431, 2296, 2173, 2064, 1968, 1887, 1822, 1775, 1748, 1743, 1766, 1820, 1917, 2072, 2319, 2739, 3687, 3925, 2679, 2117, 1752, 1487, 1287, 1133, 1016, 931, 874, 843, 836, 854, 896, 963, 1056, 1177, 1326, 1507, 1722, 1970, 2250, 2545, 2818, 2998, 3012, 2860, 2612, 2339, 2081, 1852, 1655, 1490, 1354, 1245, 1160, 1096, 1053, 1029, 1022, 1031, 1055, 1094, 1147, 1213, 1292, 1383, 1485, 1600, 1725, 1862, 2009, 2166, 2334, 2512, 2700, 2897, 3105, 3321, 3547, 3783, 4027, 4281, 4543, 4815, 5095, 5384, 5682>>,
    <<5630, 5347, 5073, 4807, 4550, 4301, 4061, 3831, 3610, 3398, 3196, 3003, 2821, 2650, 2489, 2339, 2201, 2074, 1961, 1860, 1774, 1703, 1648, 1612, 1595, 1602, 1636, 1704, 1815, 1988, 2259, 2722, 3843, 3595, 2531, 2014, 1675, 1431, 1249, 1112, 1012, 944, 904, 891, 904, 943, 1007, 1098, 1218, 1367, 1548, 1763, 2012, 2289, 2575, 2828, 2974, 2951, 2775, 2519, 2248, 1995, 1772, 1580, 1419, 1287, 1181, 1098, 1037, 995, 972, 967, 977, 1002, 1042, 1095, 1162, 1241, 1332, 1436, 1550, 1676, 1813, 1960, 2118, 2286, 2464, 2652, 2850, 3057, 3274, 3500, 3735, 3980, 4233, 4496, 4767, 5048, 5337, 5634>>,
    <<5570, 5287, 5012, 4745, 4487, 4237, 3996, 3765, 3542, 3329, 3126, 2932, 2748, 2575, 2412, 2260, 2119, 1990, 1873, 1769, 1678, 1602, 1541, 1497, 1471, 1466, 1485, 1533, 1616, 1745, 1940, 2242, 2770, 4255, 3270, 2383, 1918, 1610, 1390, 1228, 1110, 1029, 980, 960, 968, 1003, 1066, 1156, 1276, 1428, 1613, 1833, 2087, 2370, 2659, 2902, 3019, 2955, 2746, 2471, 2193, 1938, 1714, 1524, 1365, 1235, 1130, 1049, 989, 948, 926, 921, 932, 958, 998, 1052, 1119, 1199, 1290, 1394, 1509, 1635, 1772, 1919, 2077, 2245, 2423, 2611, 2809, 3016, 3233, 3459, 3695, 3939, 4193, 4455, 4727, 5007, 5296, 5594>>,
    <<5520, 5236, 4960, 4692, 4433, 4183, 3941, 3709, 3485, 3271, 3066, 2871, 2686, 2511, 2346, 2192, 2049, 1918, 1798, 1691, 1597, 1516, 1450, 1400, 1368, 1354, 1362, 1394, 1457, 1557, 1706, 1929, 2274, 2900, 5758, 2972, 2242, 1832, 1558, 1364, 1225, 1129, 1069, 1042, 1045, 1076, 1137, 1228, 1350, 1505, 1696, 1925, 2191, 2487, 2787, 3027, 3114, 3003, 2751, 2452, 2160, 1899, 1674, 1483, 1324, 1194, 1090, 1009, 950, 910, 889, 884, 896, 922, 962, 1017, 1084, 1164, 1256, 1359, 1474, 1601, 1738, 1885, 2043, 2211, 2390, 2578, 2776, 2983, 3200, 3426, 3661, 3906, 4160, 4422, 4694, 4974, 5263, 5561>>,
    <<5478, 5193, 4917, 4649, 4389, 4138, 3896, 3662, 3438, 3223, 3017, 2821, 2635, 2458, 2292, 2137, 1992, 1858, 1736, 1626, 1529, 1445, 1375, 1321, 1282, 1261, 1260, 1282, 1329, 1409, 1528, 1703, 1960, 2364, 3154, 4469, 2709, 2113, 1760, 1522, 1356, 1242, 1170, 1134, 1131, 1160, 1220, 1311, 1436, 1597, 1796, 2037, 2320, 2637, 2956, 3199, 3251, 3080, 2779, 2450, 2143, 1874, 1645, 1453, 1293, 1163, 1059, 979, 920, 881, 859, 855, 867, 894, 934, 989, 1056, 1136, 1228, 1332, 1447, 1574, 1711, 1859, 2017, 2185, 2363, 2551, 2749, 2957, 3173, 3400, 3635, 3880, 4133, 4396, 4668, 4948, 5237, 5535>>,
    <<5446, 5160, 4883, 4615, 4354, 4103, 3860, 3626, 3401, 3185, 2978, 2781, 2593, 2416, 2249, 2092, 1945, 1810, 1686, 1574, 1474, 1388, 1314, 1256, 1213, 1186, 1178, 1191, 1227, 1292, 1390, 1533, 1737, 2039, 2530, 3649, 3542, 2485, 2003, 1704, 1504, 1368, 1282, 1236, 1227, 1252, 1310, 1403, 1532, 1699, 1909, 2165, 2471, 2817, 3167, 3416, 3422, 3178, 2820, 2459, 2136, 1859, 1626, 1431, 1271, 1141, 1037, 956, 898, 859, 838, 834, 846, 873, 914, 968, 1036, 1116, 1208, 1312, 1428, 1554, 1691, 1839, 1997, 2165, 2344, 2532, 2730, 2937, 3154, 3380, 3616, 3860, 4114, 4377, 4648, 4929, 5218, 5516>>,
    <<5421, 5136, 4858, 4589, 4328, 4076, 3833, 3598, 3372, 3156, 2948, 2750, 2562, 2384, 2215, 2057, 1909, 1773, 1647, 1533, 1431, 1342, 1266, 1204, 1158, 1127, 1113, 1119, 1147, 1200, 1283, 1403, 1573, 1815, 2177, 2806, 5125, 3032, 2303, 1915, 1669, 1507, 1403, 1347, 1330, 1352, 1409, 1503, 1636, 1811, 2034, 2309, 2643, 3029, 3424, 3684, 3625, 3288, 2869, 2475, 2136, 1851, 1614, 1418, 1257, 1126, 1022, 942, 883, 844, 824, 820, 832, 859, 900, 955, 1023, 1103, 1195, 1299, 1415, 1541, 1679, 1826, 1985, 2153, 2331, 2520, 2718, 2925, 3142, 3368, 3604, 3848, 4102, 4365, 4636, 4916, 5206, 5503>>,
    <<5406, 5120, 4842, 4572, 4311, 4059, 3815, 3579, 3353, 3136, 2928, 2729, 2540, 2361, 2191, 2032, 1884, 1746, 1619, 1503, 1400, 1309, 1230, 1166, 1116, 1081, 1063, 1064, 1084, 1128, 1200, 1304, 1450, 1653, 1944, 2394, 3282, 4129, 2693, 2162, 1854, 1658, 1535, 1465, 1441, 1458, 1514, 1610, 1748, 1932, 2169, 2468, 2838, 3280, 3743, 4024, 3865, 3409, 2922, 2497, 2143, 1851, 1610, 1412, 1250, 1119, 1014, 934, 876, 837, 817, 813, 826, 853, 894, 949, 1017, 1097, 1190, 1294, 1409, 1536, 1673, 1821, 1979, 2148, 2326, 2514, 2712, 2920, 3137, 3363, 3599, 3843, 4097, 4360, 4631, 4911, 5201, 5498>>,
    <<5399, 5112, 4834, 4564, 4303, 4050, 3805, 3569, 3343, 3125, 2916, 2717, 2527, 2347, 2177, 2017, 1868, 1729, 1600, 1484, 1379, 1286, 1206, 1139, 1086, 1048, 1027, 1023, 1038, 1075, 1137, 1229, 1357, 1533, 1778, 2135, 2725, 4370, 3260, 2458, 2063, 1824, 1676, 1592, 1559, 1571, 1626, 1723, 1866, 2061, 2315, 2642, 3059, 3582, 4163, 4482, 4149, 3537, 2979, 2523, 2155, 1857, 1613, 1413, 1250, 1119, 1014, 935, 876, 838, 817, 814, 826, 854, 895, 950, 1018, 1099, 1191, 1295, 1411, 1538, 1675, 1823, 1981, 2150, 2328, 2516, 2714, 2922, 3139, 3365, 3601, 3845, 4099, 4362, 4633, 4913, 5203, 5500>>,
    <<5400, 5113, 4834, 4564, 4302, 4049, 3804, 3568, 3341, 3123, 2914, 2714, 2524, 2343, 2172, 2011, 1861, 1721, 1592, 1474, 1368, 1273, 1192, 1123, 1068, 1028, 1003, 995, 1006, 1037, 1092, 1174, 1289, 1446, 1659, 1958, 2412, 3274, 4394, 2830, 2300, 2005, 1828, 1727, 1684, 1690, 1743, 1843, 1992, 2198, 2472, 2833, 3314, 3963, 4790, 5211, 4501, 3674, 3039, 2554, 2174, 1869, 1622, 1421, 1258, 1126, 1022, 942, 884, 845, 825, 822, 834, 862, 904, 959, 1027, 1107, 1200, 1304, 1420, 1546, 1684, 1832, 1990, 2159, 2337, 2525, 2723, 2931, 3148, 3374, 3610, 3854, 4108, 4371, 4642, 4923, 5212, 5509>>,
    <<5409, 5122, 4843, 4573, 4310, 4057, 3812, 3575, 3348, 3129, 2919, 2719, 2528, 2347, 2176, 2014, 1863, 1723, 1593, 1474, 1367, 1271, 1188, 1118, 1061, 1018, 991, 980, 987, 1014, 1063, 1137, 1241, 1383, 1574, 1835, 2209, 2825, 4581, 3337, 2573, 2204, 1991, 1869, 1815, 1815, 1866, 1968, 2124, 2343, 2640, 3044, 3612, 4484, 6191, 7793, 4959, 3817, 3102, 2589, 2198, 1888, 1639, 1437, 1273, 1141, 1036, 957, 898, 860, 840, 837, 850, 877, 919, 974, 1042, 1123, 1216, 1320, 1436, 1562, 1700, 1848, 2006, 2175, 2353, 2542, 2740, 2947, 3164, 3390, 3626, 3871, 4124, 4387, 4658, 4939, 5228, 5526>>,
    <<5426, 5139, 4860, 4589, 4327, 4073, 3827, 3590, 3363, 3144, 2934, 2733, 2542, 2360, 2188, 2026, 1875, 1733, 1603, 1483, 1375, 1278, 1194, 1122, 1064, 1019, 990, 977, 981, 1003, 1047, 1115, 1212, 1342, 1516, 1749, 2073, 2565, 3532, 4172, 2895, 2420, 2162, 2018, 1950, 1944, 1993, 2097, 2260, 2492, 2815, 3270, 3959, 5316, 5806, 5627, 5582, 3953, 3163, 2627, 2226, 1913, 1662, 1459, 1294, 1162, 1058, 978, 920, 882, 862, 859, 872, 900, 942, 997, 1065, 1146, 1239, 1343, 1459, 1585, 1723, 1871, 2029, 2198, 2377, 2565, 2763, 2970, 3187, 3414, 3649, 3894, 4148, 4410, 4682, 4962, 5251, 5549>>,
    <<5451, 5164, 4884, 4613, 4351, 4097, 3851, 3614, 3386, 3167, 2956, 2755, 2564, 2382, 2209, 2047, 1895, 1753, 1622, 1501, 1392, 1295, 1209, 1137, 1077, 1031, 1000, 984, 986, 1005, 1045, 1109, 1198, 1320, 1481, 1694, 1984, 2403, 3115, 6820, 3277, 2650, 2339, 2168, 2086, 2072, 2118, 2223, 2392, 2638, 2985, 3493, 4336, 7980, 5049, 5092, 6353, 4054, 3210, 2661, 2256, 1941, 1689, 1486, 1322, 1190, 1086, 1007, 949, 911, 891, 889, 902, 929, 971, 1027, 1095, 1176, 1269, 1373, 1489, 1616, 1753, 1901, 2060, 2228, 2407, 2595, 2793, 3001, 3218, 3444, 3680, 3924, 4178, 4441, 4712, 4993, 5282, 5580>>,
    <<5484, 5196, 4917, 4646, 4383, 4129, 3883, 3646, 3417, 3198, 2987, 2786, 2594, 2412, 2239, 2076, 1924, 1781, 1649, 1528, 1419, 1321, 1234, 1161, 1100, 1053, 1020, 1003, 1002, 1019, 1057, 1116, 1200, 1315, 1467, 1666, 1933, 2306, 2895, 4301, 3727, 2881, 2508, 2309, 2212, 2190, 2232, 2336, 2508, 2760, 3124, 3667, 4630, 6373, 4896, 5027, 6433, 4067, 3228, 2683, 2281, 1968, 1718, 1516, 1353, 1223, 1120, 1041, 984, 946, 927, 924, 938, 966, 1008, 1063, 1132, 1213, 1306, 1410, 1526, 1653, 1791, 1939, 2097, 2266, 2444, 2633, 2831, 3039, 3256, 3482, 3717, 3962, 4216, 4479, 4750, 5030, 5320, 5617>>,
    <<5525, 5237, 4958, 4686, 4423, 4169, 3923, 3685, 3457, 3237, 3027, 2825, 2633, 2450, 2277, 2114, 1961, 1818, 1686, 1565, 1454, 1356, 1269, 1194, 1133, 1085, 1051, 1033, 1030, 1046, 1081, 1137, 1219, 1329, 1474, 1664, 1916, 2263, 2788, 3844, 4206, 3079, 2648, 2424, 2314, 2282, 2318, 2417, 2584, 2831, 3186, 3710, 4598, 8255, 5252, 5544, 5460, 3945, 3193, 2679, 2293, 1989, 1745, 1547, 1387, 1258, 1157, 1079, 1023, 987, 968, 966, 980, 1008, 1051, 1106, 1175, 1256, 1349, 1454, 1570, 1697, 1835, 1983, 2142, 2310, 2489, 2677, 2875, 3083, 3300, 3527, 3762, 4007, 4261, 4523, 4795, 5075, 5364, 5662>>,
    <<5573, 5286, 5006, 4735, 4472, 4217, 3971, 3733, 3505, 3285, 3074, 2872, 2680, 2497, 2324, 2161, 2007, 1864, 1732, 1610, 1499, 1400, 1313, 1238, 1176, 1128, 1093, 1074, 1071, 1085, 1119, 1174, 1253, 1361, 1503, 1689, 1935, 2271, 2772, 3731, 4506, 3190, 2727, 2488, 2368, 2328, 2354, 2442, 2593, 2816, 3128, 3561, 4183, 5139, 6536, 5838, 4532, 3685, 3088, 2637, 2282, 1997, 1764, 1574, 1420, 1295, 1196, 1121, 1066, 1031, 1014, 1013, 1027, 1056, 1099, 1155, 1225, 1306, 1399, 1504, 1621, 1748, 1886, 2034, 2193, 2361, 2540, 2729, 2927, 3135, 3352, 3578, 3814, 4059, 4312, 4575, 4847, 5127, 5416, 5714>>,
    <<5630, 5342, 5063, 4791, 4528, 4273, 4027, 3790, 3561, 3341, 3130, 2928, 2736, 2553, 2379, 2216, 2062, 1919, 1787, 1665, 1554, 1455, 1367, 1292, 1230, 1181, 1147, 1127, 1124, 1139, 1172, 1227, 1307, 1415, 1558, 1746, 1994, 2336, 2853, 3886, 4318, 3155, 2712, 2477, 2354, 2307, 2322, 2392, 2517, 2698, 2942, 3252, 3626, 4019, 4279, 4190, 3802, 3338, 2911, 2546, 2240, 1983, 1770, 1592, 1447, 1328, 1235, 1163, 1111, 1078, 1063, 1063, 1079, 1109, 1153, 1210, 1279, 1361, 1455, 1561, 1677, 1805, 1943, 2091, 2250, 2419, 2598, 2787, 2985, 3193, 3410, 3637, 3872, 4117, 4371, 4634, 4906, 5186, 5475, 5773>>,
    <<5695, 5407, 5127, 4856, 4593, 4338, 4092, 3854, 3625, 3405, 3194, 2992, 2800, 2617, 2444, 2280, 2127, 1984, 1851, 1729, 1619, 1520, 1432, 1358, 1296, 1247, 1213, 1194, 1192, 1207, 1243, 1300, 1382, 1494, 1643, 1840, 2104, 2477, 3073, 4570, 3792, 2971, 2593, 2381, 2263, 2212, 2215, 2265, 2358, 2493, 2665, 2870, 3090, 3288, 3404, 3381, 3215, 2962, 2680, 2408, 2160, 1943, 1755, 1596, 1464, 1355, 1269, 1203, 1156, 1126, 1113, 1116, 1133, 1165, 1210, 1268, 1339, 1422, 1516, 1622, 1739, 1867, 2006, 2155, 2314, 2483, 2662, 2851, 3050, 3258, 3475, 3702, 3938, 4183, 4436, 4699, 4971, 5252, 5541, 5839>>,
    <<5767, 5480, 5200, 4929, 4665, 4411, 4164, 3927, 3698, 3478, 3267, 3066, 2873, 2690, 2517, 2354, 2201, 2058, 1926, 1804, 1694, 1595, 1509, 1435, 1374, 1326, 1294, 1277, 1276, 1294, 1333, 1395, 1484, 1605, 1767, 1986, 2288, 2739, 3575, 4948, 3234, 2691, 2393, 2212, 2106, 2054, 2047, 2077, 2140, 2233, 2350, 2482, 2616, 2732, 2802, 2803, 2729, 2593, 2418, 2230, 2045, 1872, 1717, 1582, 1467, 1372, 1296, 1238, 1197, 1172, 1163, 1169, 1190, 1224, 1271, 1330, 1402, 1486, 1582, 1689, 1806, 1935, 2074, 2224, 2383, 2553, 2732, 2922, 3120, 3329, 3546, 3773, 4009, 4254, 4508, 4771, 5043, 5324, 5613, 5911>>,
    <<5848, 5561, 5281, 5010, 4747, 4492, 4246, 4009, 3780, 3560, 3350, 3148, 2956, 2773, 2601, 2438, 2285, 2143, 2011, 1890, 1781, 1683, 1598, 1525, 1466, 1420, 1390, 1376, 1380, 1403, 1448, 1518, 1619, 1758, 1946, 2208, 2593, 3256, 6003, 3435, 2743, 2377, 2147, 1998, 1904, 1854, 1839, 1853, 1893, 1954, 2032, 2118, 2206, 2281, 2332, 2346, 2318, 2249, 2148, 2028, 1900, 1773, 1654, 1547, 1453, 1375, 1312, 1264, 1232, 1214, 1211, 1222, 1246, 1283, 1332, 1394, 1468, 1554, 1651, 1759, 1878, 2007, 2147, 2297, 2458, 2628, 2808, 2998, 3197, 3405, 3623, 3851, 4087, 4332, 4587, 4850, 5122, 5403, 5692, 5990>>,
    <<5938, 5650, 5371, 5099, 4837, 4582, 4336, 4099, 3871, 3651, 3441, 3240, 3048, 2866, 2694, 2532, 2380, 2239, 2108, 1988, 1880, 1784, 1701, 1630, 1574, 1532, 1505, 1496, 1506, 1538, 1594, 1679, 1801, 1971, 2211, 2566, 3174, 5162, 3496, 2731, 2327, 2067, 1888, 1765, 1683, 1634, 1614, 1617, 1640, 1679, 1731, 1790, 1850, 1905, 1946, 1968, 1965, 1936, 1885, 1815, 1736, 1651, 1568, 1491, 1421, 1363, 1316, 1281, 1259, 1250, 1254, 1271, 1300, 1341, 1394, 1459, 1536, 1624, 1722, 1832, 1953, 2083, 2224, 2376, 2537, 2708, 2889, 3079, 3279, 3488, 3706, 3934, 4170, 4416, 4671, 4934, 5207, 5488, 5777, 6076>>,
    <<6036, 5748, 5469, 5198, 4936, 4681, 4436, 4199, 3971, 3752, 3543, 3342, 3151, 2970, 2799, 2638, 2487, 2347, 2217, 2100, 1994, 1900, 1820, 1753, 1700, 1663, 1643, 1642, 1663, 1707, 1782, 1892, 2052, 2283, 2635, 3259, 5796, 3397, 2659, 2249, 1975, 1779, 1635, 1532, 1459, 1413, 1389, 1384, 1395, 1420, 1455, 1497, 1541, 1584, 1621, 1647, 1659, 1656, 1637, 1605, 1563, 1515, 1465, 1416, 1372, 1334, 1305, 1285, 1276, 1278, 1290, 1314, 1350, 1396, 1454, 1523, 1603, 1694, 1795, 1907, 2030, 2162, 2305, 2457, 2620, 2792, 2974, 3165, 3365, 3575, 3794, 4022, 4259, 4506, 4761, 5025, 5297, 5579, 5869, 6167>>,
    <<6142, 5855, 5576, 5306, 5044, 4790, 4545, 4309, 4082, 3864, 3655, 3455, 3265, 3085, 2915, 2755, 2606, 2468, 2341, 2226, 2123, 2033, 1957, 1895, 1849, 1820, 1810, 1821, 1858, 1925, 2030, 2187, 2423, 2797, 3517, 5391, 3196, 2546, 2154, 1880, 1675, 1520, 1400, 1310, 1245, 1201, 1174, 1164, 1168, 1183, 1207, 1238, 1273, 1309, 1343, 1372, 1393, 1406, 1410, 1404, 1391, 1372, 1350, 1328, 1308, 1292, 1281, 1278, 1282, 1296, 1319, 1352, 1395, 1448, 1511, 1585, 1669, 1764, 1869, 1983, 2108, 2243, 2388, 2542, 2706, 2879, 3062, 3254, 3456, 3667, 3887, 4116, 4353, 4600, 4856, 5120, 5393, 5675, 5966, 6265>>,
    <<6258, 5972, 5693, 5423, 5162, 4909, 4665, 4429, 4203, 3986, 3778, 3580, 3391, 3213, 3045, 2887, 2740, 2605, 2481, 2370, 2271, 2187, 2117, 2062, 2026, 2008, 2014, 2045, 2109, 2214, 2378, 2635, 3068, 4061, 4162, 2971, 2418, 2055, 1789, 1582, 1419, 1290, 1187, 1107, 1047, 1004, 977, 963, 961, 970, 987, 1011, 1039, 1071, 1103, 1134, 1162, 1186, 1204, 1217, 1226, 1230, 1232, 1232, 1234, 1238, 1246, 1259, 1278, 1304, 1339, 1381, 1433, 1494, 1564, 1644, 1733, 1832, 1941, 2059, 2187, 2325, 2472, 2628, 2794, 2969, 3154, 3348, 3550, 3762, 3983, 4213, 4452, 4700, 4956, 5221, 5495, 5777, 6068, 6368>>,
    <<6384, 6098, 5820, 5551, 5290, 5038, 4795, 4561, 4336, 4120, 3914, 3717, 3531, 3354, 3189, 3034, 2891, 2759, 2640, 2534, 2442, 2365, 2304, 2261, 2239, 2240, 2270, 2335, 2448, 2631, 2933, 3500, 5835, 3565, 2765, 2297, 1965, 1709, 1504, 1337, 1200, 1088, 997, 924, 868, 826, 798, 782, 776, 780, 793, 812, 837, 865, 897, 929, 961, 992, 1021, 1048, 1072, 1094, 1114, 1134, 1154, 1177, 1201, 1230, 1264, 1304, 1350, 1404, 1465, 1534, 1612, 1698, 1794, 1898, 2011, 2134, 2266, 2406, 2556, 2716, 2884, 3061, 3248, 3443, 3648, 3861, 4083, 4315, 4554, 4803, 5060, 5326, 5601, 5884, 6176, 6476>>,
    <<6519, 6234, 5957, 5689, 5429, 5179, 4937, 4704, 4481, 4267, 4063, 3868, 3685, 3511, 3349, 3199, 3060, 2934, 2821, 2722, 2639, 2574, 2527, 2502, 2502, 2535, 2608, 2739, 2960, 3354, 4279, 4464, 3193, 2598, 2196, 1890, 1646, 1444, 1275, 1133, 1013, 913, 830, 762, 709, 668, 639, 622, 614, 615, 624, 640, 662, 689, 719, 753, 788, 824, 861, 897, 932, 968, 1003, 1038, 1074, 1112, 1152, 1196, 1244, 1296, 1355, 1419, 1490, 1569, 1654, 1748, 1850, 1960, 2079, 2207, 2343, 2487, 2641, 2803, 2975, 3155, 3343, 3541, 3747, 3963, 4186, 4419, 4660, 4910, 5169, 5436, 5711, 5995, 6288, 6588>>,
    <<6665, 6381, 6105, 5839, 5580, 5331, 5091, 4860, 4639, 4428, 4227, 4036, 3855, 3686, 3529, 3384, 3251, 3133, 3029, 2942, 2873, 2824, 2799, 2803, 2844, 2934, 3099, 3394, 4003, 6833, 3704, 2949, 2474, 2120, 1838, 1603, 1405, 1235, 1088, 962, 854, 762, 685, 621, 570, 530, 501, 482, 472, 471, 478, 492, 512, 538, 568, 602, 639, 679, 721, 764, 808, 854, 900, 948, 997, 1048, 1101, 1158, 1219, 1284, 1353, 1429, 1510, 1597, 1692, 1794, 1903, 2019, 2144, 2277, 2418, 2567, 2725, 2891, 3065, 3248, 3440, 3640, 3849, 4066, 4292, 4526, 4769, 5020, 5280, 5548, 5825, 6110, 6404, 6705>>,
    <<6822, 6540, 6266, 6000, 5744, 5497, 5259, 5031, 4813, 4605, 4407, 4221, 4045, 3882, 3731, 3594, 3471, 3363, 3273, 3203, 3155, 3134, 3147, 3205, 3327, 3557, 4013, 5486, 4299, 3343, 2792, 2392, 2074, 1809, 1583, 1387, 1216, 1067, 935, 820, 721, 635, 561, 500, 450, 411, 382, 362, 352, 349, 354, 366, 385, 410, 440, 475, 513, 556, 601, 650, 701, 754, 809, 866, 925, 988, 1052, 1121, 1192, 1268, 1349, 1434, 1525, 1622, 1725, 1835, 1951, 2075, 2206, 2344, 2491, 2645, 2807, 2977, 3155, 3342, 3537, 3740, 3951, 4171, 4399, 4635, 4880, 5133, 5395, 5664, 5943, 6229, 6524, 6827>>,
    <<6991, 6711, 6439, 6176, 5922, 5678, 5443, 5218, 5004, 4800, 4608, 4427, 4259, 4103, 3962, 3835, 3726, 3635, 3567, 3523, 3512, 3542, 3631, 3813, 4179, 5153, 4977, 3769, 3145, 2702, 2351, 2058, 1807, 1587, 1393, 1221, 1068, 931, 810, 703, 610, 528, 458, 399, 350, 312, 282, 262, 250, 247, 251, 262, 280, 304, 333, 369, 409, 453, 501, 554, 609, 668, 730, 795, 863, 934, 1008, 1086, 1167, 1253, 1343, 1438, 1538, 1644, 1755, 1873, 1997, 2127, 2265, 2409, 2561, 2721, 2888, 3062, 3245, 3435, 3633, 3840, 4054, 4277, 4507, 4746, 4993, 5248, 5512, 5783, 6063, 6351, 6647, 6951>>,
    <<7174, 6895, 6626, 6366, 6115, 5875, 5644, 5424, 5215, 5017, 4832, 4659, 4500, 4356, 4228, 4119, 4031, 3967, 3934, 3941, 4002, 4148, 4456, 5223, 5724, 4217, 3526, 3045, 2664, 2346, 2072, 1830, 1615, 1422, 1248, 1092, 951, 824, 710, 609, 520, 441, 374, 316, 269, 230, 201, 180, 168, 163, 166, 177, 194, 217, 247, 283, 323, 369, 420, 475, 534, 597, 665, 735, 810, 888, 970, 1056, 1146, 1240, 1339, 1442, 1551, 1664, 1784, 1909, 2040, 2178, 2322, 2472, 2630, 2795, 2967, 3146, 3333, 3528, 3730, 3940, 4158, 4383, 4617, 4858, 5108, 5365, 5631, 5904, 6186, 6475, 6773, 7079>>,
    <<7370, 7095, 6829, 6573, 6326, 6091, 5865, 5652, 5450, 5261, 5085, 4924, 4779, 4652, 4545, 4463, 4411, 4396, 4435, 4554, 4820, 5482, 6494, 4677, 3932, 3418, 3013, 2672, 2377, 2115, 1880, 1668, 1475, 1299, 1139, 993, 861, 741, 632, 535, 449, 373, 308, 251, 204, 166, 137, 116, 103, 98, 100, 110, 127, 150, 179, 215, 257, 304, 356, 413, 475, 542, 613, 689, 768, 852, 941, 1033, 1130, 1232, 1338, 1449, 1565, 1686, 1812, 1945, 2083, 2227, 2377, 2534, 2698, 2868, 3045, 3230, 3421, 3620, 3826, 4040, 4261, 4490, 4727, 4971, 5223, 5483, 5751, 6027, 6311, 6602, 6902, 7209>>,
    <<7583, 7311, 7050, 6799, 6558, 6329, 6111, 5906, 5714, 5537, 5375, 5232, 5109, 5009, 4939, 4906, 4925, 5023, 5263, 5871, 7180, 5140, 4359, 3821, 3394, 3034, 2720, 2439, 2186, 1955, 1744, 1550, 1372, 1208, 1058, 920, 794, 679, 574, 481, 397, 323, 259, 203, 157, 119, 90, 68, 55, 50, 52, 61, 77, 100, 130, 165, 207, 255, 309, 368, 432, 501, 576, 655, 739, 828, 921, 1019, 1122, 1229, 1342, 1459, 1582, 1709, 1843, 1981, 2126, 2276, 2433, 2596, 2765, 2940, 3123, 3312, 3508, 3712, 3922, 4140, 4365, 4597, 4837, 5085, 5340, 5603, 5873, 6152, 6438, 6731, 7033, 7342>>,
    <<7813, 7547, 7292, 7047, 6814, 6594, 6387, 6194, 6017, 5858, 5719, 5603, 5517, 5468, 5471, 5552, 5776, 6367, 7666, 5605, 4807, 4252, 3808, 3431, 3100, 2802, 2532, 2284, 2056, 1845, 1649, 1468, 1300, 1145, 1001, 869, 747, 636, 535, 444, 362, 290, 226, 172, 125, 88, 58, 37, 24, 18, 19, 28, 44, 67, 96, 132, 175, 223, 278, 338, 404, 475, 552, 634, 722, 814, 912, 1014, 1122, 1234, 1352, 1475, 1603, 1737, 1876, 2021, 2171, 2327, 2489, 2658, 2832, 3013, 3201, 3395, 3596, 3803, 4018, 4240, 4469, 4705, 4949, 5199, 5458, 5723, 5997, 6278, 6566, 6862, 7166, 7477>>,
    <<8065, 7806, 7559, 7324, 7102, 6894, 6702, 6528, 6374, 6244, 6143, 6080, 6070, 6139, 6355, 6961, 7971, 6074, 5277, 4712, 4255, 3863, 3517, 3204, 2917, 2653, 2409, 2181, 1969, 1771, 1586, 1414, 1253, 1104, 966, 838, 720, 612, 513, 424, 343, 272, 209, 155, 110, 72, 43, 21, 7, 1, 3, 11, 27, 49, 79, 115, 158, 207, 262, 323, 391, 464, 543, 627, 717, 813, 914, 1020, 1131, 1248, 1370, 1498, 1631, 1770, 1914, 2064, 2219, 2381, 2548, 2722, 2901, 3087, 3280, 3478, 3684, 3896, 4115, 4341, 4574, 4814, 5061, 5315, 5576, 5845, 6122, 6405, 6696, 6995, 7301, 7615>>,
    <<8343, 8094, 7857, 7635, 7429, 7241, 7073, 6929, 6815, 6740, 6719, 6781, 6999, 7656, 8220, 6556, 5771, 5201, 4735, 4330, 3970, 3642, 3341, 3062, 2801, 2558, 2330, 2116, 1915, 1726, 1549, 1384, 1229, 1084, 950, 825, 710, 604, 507, 419, 340, 270, 208, 154, 109, 71, 42, 20, 6, 0, 1, 9, 25, 47, 77, 113, 156, 206, 261, 324, 392, 466, 547, 633, 725, 823, 927, 1036, 1151, 1271, 1397, 1529, 1666, 1809, 1958, 2112, 2272, 2439, 2611, 2789, 2973, 3164, 3361, 3564, 3774, 3990, 4213, 4443, 4680, 4923, 5174, 5432, 5697, 5969, 6248, 6534, 6828, 7129, 7438, 7754>>,
    <<8652, 8417, 8197, 7995, 7814, 7658, 7532, 7446, 7416, 7475, 7705, 8461, 8503, 7058, 6294, 5723, 5248, 4833, 4460, 4119, 3803, 3509, 3234, 2975, 2732, 2502, 2285, 2081, 1888, 1706, 1535, 1374, 1223, 1082, 951, 829, 716, 612, 516, 430, 352, 282, 221, 167, 122, 85, 55, 34, 20, 13, 14, 22, 38, 60, 89, 126, 169, 219, 275, 338, 407, 483, 564, 652, 746, 846, 952, 1063, 1181, 1304, 1434, 1569, 1709, 1856, 2009, 2167, 2331, 2501, 2678, 2860, 3049, 3243, 3445, 3652, 3866, 4086, 4313, 4547, 4788, 5035, 5289, 5550, 5818, 6093, 6376, 6665, 6962, 7266, 7577, 7896>>,
    <<9004, 8790, 8597, 8428, 8292, 8196, 8161, 8221, 8474, 9408, 8857, 7589, 6848, 6278, 5797, 5372, 4987, 4633, 4304, 3996, 3706, 3432, 3174, 2929, 2697, 2477, 2268, 2071, 1884, 1707, 1540, 1384, 1236, 1098, 969, 849, 737, 635, 541, 455, 378, 308, 247, 194, 149, 112, 83, 61, 47, 40, 41, 49, 64, 87, 116, 152, 196, 246, 303, 366, 436, 512, 595, 684, 779, 881, 988, 1102, 1222, 1348, 1480, 1618, 1761, 1911, 2067, 2229, 2397, 2570, 2750, 2937, 3129, 3328, 3532, 3744, 3961, 4186, 4416, 4654, 4898, 5149, 5406, 5671, 5942, 6220, 6506, 6798, 7098, 7404, 7718, 8039>>,
    <<9418, 9238, 9092, 8989, 8950, 9016, 9305, 10577, 9289, 8157, 7437, 6869, 6382, 5948, 5552, 5185, 4843, 4521, 4217, 3929, 3656, 3396, 3149, 2914, 2690, 2477, 2274, 2082, 1900, 1727, 1564, 1410, 1265, 1129, 1002, 883, 773, 672, 579, 494, 417, 348, 288, 235, 190, 153, 124, 102, 88, 81, 81, 89, 105, 127, 156, 193, 236, 286, 343, 407, 478, 555, 638, 728, 825, 928, 1037, 1152, 1274, 1402, 1536, 1676, 1822, 1975, 2134, 2298, 2469, 2646, 2830, 3019, 3215, 3417, 3625, 3840, 4061, 4289, 4523, 4764, 5011, 5265, 5526, 5794, 6068, 6350, 6638, 6933, 7236, 7545, 7862, 8185>>,
    <<9931, 9821, 9780, 9856, 10198, 12329, 9798, 8767, 8065, 7498, 7005, 6561, 6155, 5776, 5421, 5085, 4768, 4466, 4178, 3903, 3641, 3391, 3152, 2924, 2706, 2499, 2301, 2113, 1934, 1764, 1604, 1452, 1309, 1175, 1049, 932, 823, 723, 630, 546, 470, 402, 341, 289, 244, 207, 178, 156, 141, 135, 135, 143, 158, 180, 210, 246, 290, 340, 397, 462, 532, 610, 694, 785, 883, 987, 1097, 1214, 1337, 1467, 1603, 1745, 1893, 2048, 2209, 2376, 2550, 2730, 2916, 3108, 3307, 3512, 3723, 3941, 4166, 4397, 4634, 4878, 5129, 5386, 5650, 5920, 6198, 6482, 6773, 7072, 7377, 7689, 8008, 8334>>,
    <<10650, 10740, 11150, 13365, 10380, 9421, 8734, 8166, 7666, 7214, 6796, 6406, 6038, 5689, 5357, 5041, 4739, 4450, 4174, 3909, 3655, 3412, 3179, 2956, 2743, 2540, 2345, 2160, 1984, 1817, 1659, 1509, 1368, 1235, 1111, 995, 887, 787, 695, 611, 536, 468, 408, 355, 311, 274, 244, 222, 208, 201, 201, 209, 224, 246, 276, 312, 356, 407, 464, 529, 600, 678, 763, 854, 953, 1057, 1169, 1287, 1411, 1542, 1680, 1824, 1974, 2131, 2294, 2463, 2639, 2821, 3010, 3205, 3406, 3614, 3828, 4049, 4276, 4510, 4750, 4997, 5250, 5511, 5777, 6051, 6331, 6618, 6912, 7213, 7521, 7836, 8157, 8486>>,
    <<12158, 13020, 11033, 10124, 9445, 8875, 8368, 7906, 7477, 7074, 6694, 6332, 5987, 5657, 5340, 5037, 4746, 4466, 4198, 3940, 3692, 3454, 3226, 3007, 2798, 2598, 2406, 2224, 2050, 1885, 1729, 1580, 1440, 1309, 1185, 1070, 963, 864, 773, 689, 614, 546, 486, 434, 389, 352, 323, 301, 287, 280, 280, 288, 303, 325, 354, 391, 435, 485, 543, 608, 679, 758, 843, 935, 1034, 1140, 1252, 1371, 1497, 1629, 1768, 1913, 2065, 2223, 2388, 2559, 2737, 2921, 3112, 3309, 3513, 3723, 3940, 4163, 4393, 4629, 4872, 5121, 5377, 5640, 5910, 6186, 6469, 6759, 7055, 7359, 7669, 7986, 8311, 8642>>,
    <<11753, 10876, 10201, 9626, 9111, 8639, 8198, 7783, 7389, 7014, 6655, 6311, 5981, 5664, 5358, 5064, 4781, 4508, 4245, 3993, 3749, 3516, 3291, 3076, 2869, 2672, 2483, 2302, 2130, 1967, 1812, 1665, 1526, 1395, 1273, 1158, 1052, 953, 862, 779, 704, 637, 577, 525, 480, 443, 414, 392, 378, 371, 371, 379, 394, 416, 445, 482, 525, 576, 634, 699, 771, 850, 935, 1028, 1127, 1234, 1347, 1466, 1593, 1726, 1866, 2012, 2166, 2325, 2492, 2664, 2844, 3030, 3223, 3422, 3627, 3840, 4059, 4284, 4516, 4755, 5000, 5252, 5510, 5776, 6048, 6326, 6612, 6904, 7203, 7509, 7822, 8141, 8468, 8801>>,
    <<11003, 10421, 9896, 9412, 8960, 8532, 8125, 7736, 7364, 7006, 6662, 6330, 6010, 5701, 5403, 5116, 4839, 4571, 4313, 4064, 3825, 3595, 3373, 3160, 2956, 2761, 2574, 2395, 2224, 2062, 1908, 1762, 1624, 1495, 1373, 1259, 1153, 1055, 964, 881, 807, 739, 680, 628, 583, 546, 517, 495, 480, 473, 474, 481, 496, 518, 548, 584, 628, 679, 737, 802, 874, 953, 1039, 1132, 1232, 1339, 1452, 1573, 1700, 1834, 1975, 2122, 2277, 2438, 2605, 2779, 2960, 3148, 3342, 3543, 3750, 3965, 4185, 4413, 4647, 4887, 5135, 5389, 5650, 5917, 6191, 6472, 6760, 7054, 7356, 7664, 7979, 8301, 8629, 8965>>,
    <<10724, 10228, 9762, 9321, 8901, 8499, 8112, 7740, 7382, 7036, 6701, 6378, 6066, 5764, 5472, 5189, 4917, 4653, 4399, 4154, 3917, 3689, 3470, 3259, 3057, 2863, 2678, 2500, 2331, 2170, 2017, 1872, 1735, 1606, 1485, 1371, 1266, 1168, 1078, 995, 920, 853, 794, 742, 697, 661, 631, 609, 595, 588, 588, 595, 610, 632, 662, 698, 742, 793, 851, 916, 989, 1068, 1154, 1248, 1348, 1455, 1569, 1690, 1818, 1953, 2095, 2243, 2398, 2560, 2729, 2904, 3086, 3275, 3471, 3673, 3882, 4098, 4320, 4549, 4785, 5028, 5277, 5533, 5796, 6065, 6341, 6624, 6914, 7210, 7514, 7824, 8141, 8465, 8796, 9134>>,
    <<10607, 10152, 9718, 9301, 8901, 8515, 8142, 7781, 7433, 7095, 6768, 6451, 6145, 5848, 5560, 5282, 5013, 4753, 4501, 4258, 4024, 3799, 3581, 3372, 3172, 2979, 2795, 2619, 2451, 2290, 2138, 1994, 1858, 1729, 1608, 1495, 1390, 1292, 1202, 1120, 1046, 979, 919, 867, 823, 786, 757, 735, 720, 713, 713, 721, 736, 758, 787, 824, 868, 919, 977, 1042, 1115, 1194, 1281, 1374, 1475, 1583, 1697, 1819, 1947, 2082, 2225, 2374, 2530, 2693, 2862, 3039, 3222, 3412, 3609, 3812, 4023, 4240, 4464, 4694, 4932, 5176, 5427, 5684, 5949, 6220, 6498, 6783, 7074, 7373, 7678, 7990, 8309, 8635, 8968, 9308>>,
    <<10576, 10145, 9730, 9329, 8942, 8567, 8204, 7851, 7510, 7179, 6857, 6546, 6243, 5950, 5666, 5391, 5125, 4867, 4618, 4378, 4146, 3922, 3706, 3499, 3299, 3108, 2925, 2749, 2582, 2423, 2271, 2127, 1992, 1863, 1743, 1630, 1526, 1428, 1339, 1257, 1182, 1115, 1056, 1004, 960, 923, 893, 872, 857, 850, 850, 857, 872, 894, 924, 960, 1004, 1055, 1114, 1179, 1252, 1331, 1418, 1512, 1613, 1721, 1836, 1958, 2087, 2222, 2365, 2515, 2672, 2835, 3006, 3183, 3367, 3558, 3756, 3961, 4172, 4390, 4616, 4847, 5086, 5332, 5584, 5843, 6109, 6382, 6662, 6948, 7242, 7542, 7849, 8163, 8483, 8811, 9146, 9487>>,
    <<10600, 10184, 9782, 9393, 9015, 8648, 8292, 7946, 7610, 7283, 6966, 6658, 6360, 6070, 5789, 5516, 5252, 4997, 4750, 4511, 4280, 4058, 3843, 3637, 3439, 3249, 3066, 2892, 2725, 2566, 2416, 2272, 2137, 2009, 1889, 1777, 1672, 1575, 1486, 1404, 1329, 1263, 1203, 1152, 1107, 1070, 1041, 1019, 1005, 997, 997, 1005, 1020, 1042, 1071, 1108, 1152, 1203, 1261, 1327, 1399, 1479, 1566, 1660, 1761, 1870, 1985, 2107, 2236, 2373, 2516, 2666, 2824, 2988, 3159, 3337, 3522, 3714, 3913, 4118, 4331, 4550, 4776, 5009, 5249, 5496, 5750, 6010, 6278, 6552, 6833, 7121, 7416, 7718, 8026, 8342, 8664, 8994, 9330, 9673>>,
    <<10663, 10258, 9866, 9484, 9113, 8752, 8402, 8060, 7729, 7406, 7093, 6788, 6492, 6205, 5926, 5656, 5394, 5140, 4894, 4657, 4428, 4206, 3993, 3788, 3591, 3401, 3219, 3046, 2880, 2722, 2571, 2428, 2293, 2166, 2046, 1934, 1830, 1733, 1644, 1562, 1488, 1421, 1362, 1310, 1266, 1229, 1199, 1177, 1163, 1156, 1156, 1163, 1178, 1200, 1230, 1266, 1310, 1361, 1420, 1485, 1558, 1638, 1725, 1819, 1921, 2029, 2145, 2267, 2397, 2533, 2677, 2828, 2986, 3150, 3322, 3501, 3687, 3879, 4079, 4285, 4499, 4719, 4946, 5180, 5421, 5669, 5924, 6186, 6454, 6730, 7012, 7302, 7598, 7901, 8211, 8528, 8852, 9183, 9520, 9865>>,
    <<10757, 10360, 9974, 9599, 9233, 8877, 8531, 8193, 7865, 7545, 7235, 6933, 6639, 6354, 6077, 5808, 5548, 5296, 5051, 4815, 4587, 4367, 4155, 3950, 3754, 3565, 3384, 3211, 3045, 2888, 2738, 2595, 2461, 2333, 2214, 2102, 1998, 1901, 1812, 1730, 1656, 1590, 1530, 1479, 1434, 1398, 1368, 1346, 1332, 1324, 1325, 1332, 1347, 1369, 1398, 1435, 1479, 1530, 1588, 1654, 1727, 1807, 1894, 1989, 2090, 2199, 2315, 2437, 2567, 2704, 2849, 3000, 3158, 3323, 3495, 3675, 3861, 4054, 4254, 4462, 4676, 4897, 5125, 5360, 5602, 5851, 6107, 6369, 6639, 6916, 7199, 7490, 7787, 8092, 8403, 8721, 9047, 9379, 9718, 10064>>,
    <<10876, 10485, 10105, 9734, 9372, 9020, 8677, 8343, 8017, 7700, 7392, 7092, 6800, 6516, 6241, 5974, 5715, 5464, 5221, 4986, 4758, 4539, 4328, 4124, 3928, 3740, 3559, 3387, 3222, 3064, 2915, 2773, 2638, 2512, 2392, 2281, 2177, 2080, 1991, 1909, 1835, 1769, 1710, 1658, 1614, 1577, 1548, 1526, 1511, 1504, 1504, 1511, 1526, 1548, 1577, 1614, 1658, 1709, 1768, 1833, 1906, 1987, 2074, 2168, 2270, 2379, 2495, 2618, 2748, 2885, 3030, 3181, 3340, 3506, 3678, 3858, 4045, 4239, 4439, 4647, 4862, 5084, 5313, 5549, 5791, 6041, 6298, 6562, 6832, 7110, 7395, 7686, 7985, 8290, 8603, 8922, 9249, 9582, 9922, 10270>>,
    <<11016, 10630, 10253, 9886, 9528, 9179, 8839, 8507, 8183, 7869, 7562, 7264, 6974, 6692, 6418, 6152, 5894, 5644, 5402, 5168, 4941, 4723, 4512, 4309, 4113, 3926, 3746, 3573, 3409, 3252, 3103, 2961, 2827, 2700, 2581, 2469, 2366, 2269, 2180, 2099, 2025, 1958, 1899, 1847, 1803, 1766, 1737, 1715, 1700, 1693, 1693, 1701, 1715, 1738, 1767, 1804, 1848, 1899, 1957, 2023, 2096, 2176, 2264, 2358, 2460, 2569, 2685, 2808, 2939, 3076, 3221, 3373, 3532, 3698, 3871, 4051, 4238, 4433, 4634, 4843, 5058, 5280, 5510, 5746, 5990, 6240, 6498, 6763, 7034, 7313, 7598, 7891, 8190, 8497, 8810, 9131, 9458, 9793, 10134, 10483>>,
    <<11174, 10792, 10419, 10055, 9700, 9353, 9015, 8685, 8364, 8050, 7745, 7449, 7160, 6879, 6606, 6341, 6084, 5835, 5594, 5361, 5135, 4917, 4707, 4504, 4309, 4122, 3943, 3771, 3606, 3450, 3301, 3159, 3025, 2899, 2780, 2669, 2565, 2468, 2379, 2298, 2224, 2158, 2099, 2047, 2003, 1966, 1937, 1915, 1900, 1893, 1893, 1900, 1915, 1937, 1966, 2003, 2047, 2098, 2157, 2223, 2296, 2376, 2463, 2558, 2660, 2769, 2886, 3009, 3140, 3277, 3422, 3574, 3734, 3900, 4073, 4254, 4442, 4636, 4838, 5047, 5263, 5486, 5716, 5953, 6197, 6449, 6707, 6972, 7244, 7524, 7810, 8104, 8404, 8711, 9026, 9347, 9676, 10011, 10354, 10703>>,
    <<11349, 10970, 10600, 10238, 9885, 9541, 9204, 8876, 8556, 8245, 7941, 7645, 7358, 7078, 6806, 6542, 6286, 6038, 5797, 5564, 5339, 5122, 4912, 4710, 4516, 4329, 4150, 3978, 3814, 3658, 3509, 3368, 3234, 3108, 2989, 2878, 2774, 2678, 2589, 2508, 2434, 2367, 2308, 2257, 2212, 2176, 2146, 2124, 2110, 2102, 2102, 2110, 2125, 2147, 2176, 2213, 2257, 2308, 2367, 2432, 2505, 2586, 2673, 2768, 2870, 2979, 3096, 3219, 3350, 3488, 3633, 3786, 3945, 4112, 4285, 4466, 4654, 4849, 5052, 5261, 5477, 5701, 5932, 6169, 6414, 6666, 6925, 7191, 7464, 7744, 8031, 8325, 8626, 8934, 9250, 9572, 9901, 10238, 10581, 10932>>,
    <<11540, 11163, 10795, 10435, 10084, 9741, 9407, 9080, 8762, 8451, 8149, 7854, 7567, 7288, 7017, 6754, 6499, 6251, 6011, 5779, 5554, 5337, 5128, 4926, 4732, 4546, 4367, 4196, 4032, 3876, 3727, 3586, 3453, 3326, 3208, 3097, 2993, 2897, 2808, 2727, 2653, 2587, 2528, 2476, 2432, 2395, 2366, 2344, 2329, 2322, 2322, 2329, 2344, 2366, 2395, 2432, 2476, 2527, 2586, 2652, 2725, 2805, 2893, 2988, 3090, 3199, 3316, 3440, 3571, 3709, 3854, 4007, 4166, 4333, 4507, 4688, 4877, 5072, 5275, 5484, 5701, 5925, 6156, 6394, 6639, 6892, 7151, 7418, 7691, 7972, 8260, 8555, 8856, 9165, 9481, 9805, 10135, 10472, 10816, 11168>>,
    <<11744, 11369, 11003, 10645, 10296, 9954, 9621, 9296, 8978, 8669, 8367, 8074, 7788, 7510, 7240, 6977, 6722, 6475, 6236, 6004, 5780, 5563, 5354, 5153, 4959, 4773, 4594, 4423, 4260, 4104, 3955, 3814, 3681, 3555, 3437, 3326, 3222, 3126, 3037, 2956, 2882, 2816, 2757, 2705, 2661, 2624, 2595, 2573, 2558, 2551, 2551, 2558, 2573, 2595, 2625, 2661, 2705, 2757, 2815, 2881, 2954, 3035, 3122, 3217, 3320, 3429, 3546, 3669, 3801, 3939, 4084, 4237, 4397, 4564, 4738, 4920, 5108, 5304, 5507, 5717, 5934, 6158, 6390, 6628, 6874, 7127, 7387, 7654, 7928, 8209, 8497, 8793, 9095, 9405, 9722, 10046, 10376, 10714, 11059, 11412>>,
    <<11962, 11589, 11224, 10868, 10519, 10179, 9847, 9523, 9206, 8898, 8597, 8304, 8019, 7742, 7472, 7210, 6956, 6709, 6470, 6239, 6015, 5799, 5590, 5389, 5196, 5010, 4832, 4661, 4498, 4342, 4193, 4053, 3919, 3793, 3675, 3564, 3461, 3365, 3276, 3195, 3121, 3055, 2996, 2944, 2900, 2863, 2834, 2812, 2797, 2790, 2790, 2797, 2812, 2834, 2864, 2900, 2944, 2996, 3054, 3120, 3193, 3274, 3361, 3456, 3559, 3668, 3785, 3909, 4040, 4179, 4324, 4477, 4637, 4804, 4979, 5160, 5349, 5545, 5748, 5959, 6176, 6401, 6633, 6872, 7118, 7371, 7631, 7899, 8173, 8455, 8744, 9040, 9343, 9653, 9970, 10295, 10626, 10965, 11311, 11664>>,
    <<12192, 11820, 11457, 11102, 10755, 10416, 10084, 9761, 9445, 9138, 8838, 8546, 8261, 7984, 7715, 7454, 7200, 6954, 6715, 6484, 6261, 6045, 5837, 5636, 5443, 5257, 5079, 4908, 4745, 4589, 4441, 4300, 4167, 4041, 3923, 3812, 3709, 3613, 3524, 3443, 3369, 3303, 3244, 3193, 3148, 3112, 3082, 3060, 3046, 3038, 3038, 3046, 3060, 3083, 3112, 3149, 3193, 3244, 3303, 3369, 3442, 3522, 3610, 3705, 3807, 3917, 4034, 4158, 4289, 4428, 4573, 4726, 4887, 5054, 5229, 5411, 5600, 5796, 5999, 6210, 6428, 6652, 6885, 7124, 7370, 7624, 7885, 8153, 8428, 8710, 8999, 9296, 9599, 9910, 10228, 10553, 10885, 11224, 11570, 11924>>,
    <<12433, 12063, 11701, 11347, 11001, 10663, 10332, 10010, 9695, 9388, 9089, 8797, 8513, 8237, 7968, 7707, 7454, 7208, 6970, 6739, 6516, 6300, 6092, 5892, 5699, 5513, 5335, 5165, 5002, 4846, 4698, 4558, 4425, 4299, 4181, 4070, 3967, 3871, 3782, 3701, 3627, 3561, 3502, 3451, 3406, 3370, 3340, 3318, 3304, 3296, 3296, 3304, 3318, 3340, 3370, 3407, 3451, 3502, 3561, 3626, 3700, 3780, 3868, 3963, 4066, 4175, 4292, 4416, 4548, 4686, 4832, 4985, 5146, 5313, 5488, 5670, 5859, 6056, 6259, 6470, 6688, 6913, 7146, 7385, 7632, 7886, 8147, 8415, 8691, 8973, 9263, 9560, 9864, 10175, 10493, 10819, 11151, 11491, 11838, 12192>>>>
energy(r, c) == energyTab[r + 1][c + 1]
\* energy = -log(pdf), so pdf = exp(-energy), in 1/Micro
pdf(r, c) == ExpNeg(energy(r, c))

(***************************************************************************)
(* jax.random: keys are residues modulo KeyMod; split and the raw bits of  *)
(* a draw are fixed mixing functions of the key, so that equal keys give   *)
(* equal draws and a draw is a deterministic function of the seed.         *)
(***************************************************************************)
KeyMod == 2^12
\* jax.random.split(key): the pair of sub-keys
split(key) == <<(1229 * key + 1) % KeyMod, (1597 * key + 51) % KeyMod>>
\* the raw bits behind the i-th component of a draw from key
Bits(key, i) == (2053 * key + 389 + 1801 * i) % KeyMod
\* jax.random.uniform(key, minval, maxval) in 1/Micro: minval + (maxval - minval) * u,
\* u = Bits / KeyMod in [0, 1); minval and maxval are given in 1/Micro
uniform(key, minval, maxval) ==
  LET w == maxval - minval
  IN minval + (w \div KeyMod) * Bits(key, 0) + ((w % KeyMod) * Bits(key, 0)) \div KeyMod
\* standard normal quantiles at (i + 1/2) / 32 in 1/Milli
NormalQuantile ==
  <<-2154, -1676, -1418, -1230, -1078, -947, -831, -725, -626, -533, -445,
    -360, -278, -197, -118, -39, 39, 118, 197, 278, 360, 445, 533, 626, 725,
    831, 947, 1078, 1230, 1418, 1676, 2154>>
\* jax.random.normal(key, shape=(2,)): component i in 1/Milli
normal(key, i) == NormalQuantile[(Bits(key, i) % Len(NormalQuantile)) + 1]
\* jnp.floor of a non-negative value in 1/Micro, as a value in 1/Micro
floor(v) == (v \div Micro) * Micro
\* .astype(int) of a value in 1/Micro: truncation towards zero
astype_int(v) == QuotT(v, Micro)

(***************************************************************************)
(* sa.py: sim_anneal                                                       *)
(***************************************************************************)
n_samples == 300
sigma == 10
\* T = 1
T_start == 1 * TUnit
alpha_num == 99
alpha_den == 100
\* number of seeds sim_anneal is started from
NumSeeds == 12
Proposals == {"uniform", "gaussian", "levy"}
\* a local variable that has not been assigned yet
Unbound == <<>>
Bound(v) == <<v>>
Val(l) == l[1]

(***************************************************************************)
(* gmm.py: floating point                                                  *)
(*                                                                         *)
(* A float is <<m, e>>, the number m * 2^e, with 2^23 <= |m| < 2^24 (a     *)
(* 24-bit mantissa) or m = 0.  Sums, differences, products and quotients   *)
(* are rounded to the nearest float, ties to the even mantissa, as IEEE    *)
(* 754 arithmetic rounds them; exp and log are accurate to a few units in  *)
(* the last place.  The pairs <<0, e>> with e # 0 are nan and the          *)
(* infinities.                                                             *)
(***************************************************************************)
MantBits == 24
MantMin == 2^(MantBits - 1)
MantMax == 2^MantBits
HalfWord == 2^(MantBits \div 2)
Zero == <<0, 0>>
NaN == <<0, 1>>
PosInf == <<0, 2>>
NegInf == <<0, 3>>
IsFinite(a) == a[1] # 0 \/ a[2] = 0

RECURSIVE ScaleUp(_, _)
\* m * 2^e with 0 < m < MantMax brought to a full mantissa
ScaleUp(m, e) ==
  IF m >= MantMin THEN <<m, e>>
  ELSE IF m < HalfWord THEN ScaleUp(m * HalfWord, e - MantBits \div 2)
  ELSE ScaleUp(2 * m, e - 1)
RECURSIVE Excess(_, _)
\* the number of bits, at least k, by which m is longer than a mantissa
Excess(m, k) == IF m \div 2^k < MantMax THEN k ELSE Excess(m, k + 1)
\* the quotient q of a division by 2 * half with remainder r, rounded to the
\* nearest integer; a tie goes to the even one
Round(q, r, half) == IF r > half \/ (r = half /\ q % 2 = 1) THEN q + 1 ELSE q
\* a rounded mantissa that has reached MantMax starts the next binade
Carry(up, e) == IF up = MantMax THEN <<MantMin, e + 1>> ELSE <<up, e>>
\* m * 2^e without the last k bits of m
DropBits(m, e, k) == Carry(Round(m \div 2^k, m % 2^k, 2^(k - 1)), e + k)
\* the float nearest to m * 2^e, m >= 0
Normal(m, e) ==
  IF m = 0 THEN Zero
  ELSE IF m < MantMax THEN ScaleUp(m, e)
  ELSE DropBits(m, e, Excess(m, 1))
Sign(i) == IF i < 0 THEN -1 ELSE 1
WithSign(s, p) == <<s * p[1], p[2]>>
Fl(m, e) == WithSign(Sign(m), Normal(Abs(m), e))
FromInt(i) == Fl(i, 0)
One == FromInt(1)
FNeg(a) == <<-a[1], a[2]>>
FAbs(a) == <<Abs(a[1]), a[2]>>

\* q with its last bit set when bits were lost
Sticky(q, lost) == IF lost /\ q % 2 = 0 THEN q + 1 ELSE q
\* m \div 2^k for m > 0 and k >= 0, the last bit set when bits were lost
ShrSticky(m, k) == IF k >= 31 THEN 1 ELSE Sticky(m \div 2^k, m % 2^k # 0)

\* both mantissas of a sum get GuardBits extra bits
GuardBits == 5
\* hi + lo for floats with hi[2] >= lo[2]: the mantissa of lo is shifted
AddAligned(hi, lo) ==
  Fl(hi[1] * 2^GuardBits
       + Sign(lo[1]) * ShrSticky(Abs(lo[1]) * 2^GuardBits, hi[2] - lo[2]),
     hi[2] - GuardBits)
\* a + b
FAdd(a, b) ==
  IF a[1] = 0 THEN b
  ELSE IF b[1] = 0 THEN a
  ELSE AddAligned(IF a[2] >= b[2] THEN a ELSE b, IF a[2] >= b[2] THEN b ELSE a)
FSub(a, b) == FAdd(a, FNeg(b))

\* the product of two mantissas keeps MulShift bits less than it has
MulShift == MantBits - 4
MulCut == 2^MulShift
MidCut == MulCut \div HalfWord
\* 2 * (p + floor(rest / MulCut)), plus 1 when rest leaves a remainder
MulRest(p, rest) == 2 * (p + rest \div MulCut) + (IF rest % MulCut # 0 THEN 1 ELSE 0)
\* the same for high * HalfWord^2 + mid * HalfWord + low in place of x * y
MulSum(high, mid, low) ==
  MulRest(high * (MantMax \div MulCut) + mid \div MidCut + low \div MulCut,
          (mid % MidCut) * HalfWord + (low % MulCut))
MulParts(x1, x0, y1, y0) == MulSum(x1 * y1, x1 * y0 + x0 * y1, x0 * y0)
\* 2 * floor(x * y / MulCut) for mantissas x, y, from their half words,
\* plus 1 when the division leaves a remainder
MulHigh(x, y) == MulParts(x \div HalfWord, x % HalfWord, y \div HalfWord, y % HalfWord)
\* a * b
FMul(a, b) ==
  IF a[1] = 0 \/ b[1] = 0 THEN Zero
  ELSE Fl(Sign(a[1]) * Sign(b[1]) * MulHigh(Abs(a[1]), Abs(b[1])),
          a[2] + b[2] + MulShift - 1)

\* the quotient is developed DivChunk bits at a time
DivChunk == 30 - MantBits
DivJoin(q, rec) == <<q + rec[1], rec[2]>>
RECURSIVE LongDiv(_, _, _)
\* <<floor(x * 2^k / y), (x * 2^k) % y>> for x >= 0 and 0 < y < 2^MantBits
LongDiv(x, y, k) ==
  IF k = 0 THEN <<x \div y, x % y>>
  ELSE DivJoin((x \div y) * 2^k,
               LongDiv((x % y) * 2^Min(k, DivChunk), y, k - Min(k, DivChunk)))
\* twice the quotient d[1], plus 1 when the remainder d[2] is not 0
QuotSticky(d) == 2 * d[1] + (IF d[2] # 0 THEN 1 ELSE 0)
\* a / b, b # 0
FDiv(a, b) ==
  IF a[1] = 0 THEN Zero
  ELSE Fl(Sign(a[1]) * Sign(b[1])
            * QuotSticky(LongDiv(Abs(a[1]), Abs(b[1]), MantBits + 2)),
          a[2] - b[2] - MantBits - 3)

\* a < b
FLess(a, b) == FSub(a, b)[1] < 0

\* floor of a float 0 <= a < 2^30, as an integer
FFloor(a) ==
  IF a[1] = 0 THEN 0
  ELSE IF a[2] >= 0 THEN a[1] * 2^a[2]
  ELSE IF -a[2] >= 31 THEN 0
  ELSE a[1] \div 2^(-a[2])
\* floor of -a for a float a > 0 with floor f
FloorNeg(f, a) == IF FromInt(f) = a THEN -f ELSE -(f + 1)
\* floor of a float of either sign
FloorF(a) == IF a[1] >= 0 THEN FFloor(a) ELSE FloorNeg(FFloor(FAbs(a)), FAbs(a))

\* log(2), log(2 pi), sqrt(2) and 1/2
Ln2 == Fl(11629080, -24)
Ln2Pi == Fl(15417230, -23)
Sqrt2 == Fl(11863283, -23)
Half == Fl(1, -1)
\* log(2) = Ln2Hi + Ln2Lo, where k * Ln2Hi is exact for every exponent k
Ln2Hi == Fl(1419, -11)
Ln2Lo == Fl(9486271, -35)
\* k * log(2) in two parts
KLn2Hi(k) == FMul(FromInt(k), Ln2Hi)
KLn2Lo(k) == FMul(FromInt(k), Ln2Lo)
\* s * 2^k
Scale2(s, k) == <<s[1], IF s[1] = 0 THEN 0 ELSE s[2] + k>>

\* number of terms of the two series
ExpOrder == 11
AtanhOrder == 11
RECURSIVE ExpTerms(_, _, _)
\* the terms of the series of exp(r) from term = r^(j-1)/(j-1)! on
ExpTerms(r, term, j) ==
  IF term[1] = 0 \/ j > ExpOrder THEN Zero
  ELSE FAdd(term, ExpTerms(r, FDiv(FMul(term, r), FromInt(j)), j + 1))
\* exp(x) for x = k log 2 + r with |r| <= log(2)/2
ExpReduced(x, k) == Scale2(ExpTerms(FSub(FSub(x, KLn2Hi(k)), KLn2Lo(k)), One, 1), k)
\* exp(x) for a finite x; 0 below the smallest and inf above the largest double
FExp(x) ==
  IF FLess(x, FromInt(-745)) THEN Zero
  ELSE IF FLess(FromInt(709), x) THEN PosInf
  ELSE ExpReduced(x, FloorF(FAdd(FDiv(x, Ln2), Half)))

RECURSIVE AtanhTerms(_, _, _)
\* t + t^3/3 + t^5/5 + ... from power = t^j on
AtanhTerms(power, t2, j) ==
  IF power[1] = 0 \/ j > AtanhOrder THEN Zero
  ELSE FAdd(FDiv(power, FromInt(j)), AtanhTerms(FMul(power, t2), t2, j + 2))
Atanh(t) == AtanhTerms(t, FMul(t, t), 1)
\* log(y * 2^k) for sqrt(1/2) <= y < sqrt(2): log y = 2 atanh((y-1)/(y+1))
LogReduced(y, k) ==
  FAdd(FAdd(KLn2Hi(k), KLn2Lo(k)),
       Scale2(Atanh(FDiv(FSub(y, One), FAdd(y, One))), 1))
\* log of the mantissa a[1] read as a number below 1 (up = 0) or below 2
LogMant(a, up) == LogReduced(<<a[1], up - MantBits>>, a[2] + MantBits - up)
\* log(a), a > 0
FLog(a) == LogMant(a, IF a[1] >= Sqrt2[1] THEN 0 ELSE 1)

(***************************************************************************)
(* gmm.py: the mixture model, for one feature (X of shape (N, 1))          *)
(***************************************************************************)
\* the sequence f with its elements evaluated once
Eager(f) == f \o <<>>
MinusHalf == Fl(-1, -1)
\* head + last, where head is a sum so far; nan if either is nan
FPlus(head, last) ==
  IF last = NaN \/ head = NaN THEN NaN
  ELSE IF last = NegInf \/ head = NegInf THEN NegInf
  ELSE FAdd(head, last)
RECURSIVE FSumFrom(_, _)
\* the sum of a sequence of floats, accumulated from the left
FSumFrom(s, i) == IF i = 0 THEN Zero ELSE FPlus(FSumFrom(s, i - 1), s[i])
FSum(s) == FSumFrom(s, Len(s))

\* scipy multivariate_normal(mean=m, cov=v).pdf(x) = exp(logpdf),
\* logpdf = -(log(2 pi) + log v + (x - m)^2 / v) / 2
Square(d) == FMul(d, d)
NormLogPdf(x, m, v) ==
  FMul(MinusHalf, FAdd(FAdd(Ln2Pi, FLog(v)), FDiv(Square(FSub(x, m)), v)))
NormPdf(x, m, v) == FExp(NormLogPdf(x, m, v))
\* multivariate_normal(mean, cov) raises unless cov is finite and positive definite
ValidCov(v) == IsFinite(v) /\ v[1] > 0

\* line 91: elements = [pi_i * Ni.pdf(x) ...]
Elements(w, m, S, x) ==
  Eager([i \in 1 .. Min(Len(w), Len(m)) |-> FMul(w[i], NormPdf(x, m[i], S[i]))])
\* line 92: elements[k] / np.sum(elements, axis=0); 0/0 is nan
Ratio(e, total) == IF total = Zero THEN NaN ELSE FDiv(e, total)
Normalised(elements, k) == Ratio(elements[k], FSum(elements))
Respons(k, w, m, S, x) == Normalised(Elements(w, m, S, x), k)
\* lines 87-94: the closure respons, held as the arguments it captures
compute_responsibilities(k, w, m, S) == [k |-> k, pi |-> w, mu |-> m, Sigma |-> S]
\* respons(X) for a closure
Call(resp, data) ==
  Eager([i \in 1 .. Len(data) |->
           Respons(resp.k, resp.pi, resp.mu, resp.Sigma, data[i])])

\* lines 97-102
e_step(w, m, S) ==
  Eager([i \in 1 .. Len(m) |-> compute_responsibilities(i, w, m, S)])

\* line 117: pi_k = Nk / N
MixWeight(Nk, N) == IF Nk = NaN THEN NaN ELSE FDiv(Nk, FromInt(N))
\* the mean taken over all N points instead of the Nk the component holds
Mean_OverN(data, resp_k, Nk) ==
  FDiv(FSum(Eager([i \in 1 .. Len(data) |-> FMul(resp_k[i], data[i])])),
       FromInt(Len(data)))
\* line 111: mu_k = (resp_k[:, np.newaxis] * X).sum(axis=0) / Nk
Mean(data, resp_k, Nk) ==
  FDiv(FSum(Eager([i \in 1 .. Len(data) |-> FMul(resp_k[i], data[i])])), Nk)
\* lines 112-114: dk = X - mu_k; Sigma_k = (resp_k * dk dk^T).sum(axis=0) / Nk
Covariance(data, resp_k, mu_k, Nk) ==
  FDiv(FSum(Eager([i \in 1 .. Len(data) |->
                     FMul(resp_k[i], Square(FSub(data[i], mu_k)))])), Nk)
\* lines 109-117 for one component: <<pi_k, mu_k, Sigma_k>>; 0/0 and nan give nan
ComponentAt(data, resp_k, Nk, mu_k) ==
  <<MixWeight(Nk, Len(data)), mu_k, Covariance(data, resp_k, mu_k, Nk)>>
ComponentOf(data, resp_k, Nk) ==
  IF Nk = NaN \/ Nk = Zero
    THEN <<MixWeight(Nk, Len(data)), NaN, NaN>>
    ELSE ComponentAt(data, resp_k, Nk, Mean(data, resp_k, Nk))
\* line 110: Nk = resp_k.sum()
MStepComponent(data, resp_k) == ComponentOf(data, resp_k, FSum(resp_k))
\* lines 105-122: <<pi, mu, Sigma>>
Column(c, j) == Eager([k \in 1 .. Len(c) |-> c[k][j]])
\* lines 119-122: the lists pi, mu, Sigma of the components c
Lists(c) == <<Column(c, 1), Column(c, 2), Column(c, 3)>>
m_step(data, resps) ==
  Lists(Eager([k \in 1 .. Len(resps) |-> MStepComponent(data, Call(resps[k], data))]))

\* lines 127-128: some multivariate_normal(mean=mu_k, cov=Sigma_k) raises
Raises(m, S) == \E k \in 1 .. Min(Len(m), Len(S)) : ~ValidCov(S[k])
\* lines 125-130, for parameters that do not raise; log(0) is -inf
LogOf(likelihood) == IF likelihood = Zero THEN NegInf ELSE FLog(likelihood)
gmm_log_likelihood(data, w, m, S) ==
  FSum(Eager([i \in 1 .. Len(data) |-> LogOf(FSum(Elements(w, m, S, data[i])))]))

\* the absolute change of the log-likelihood in place of the relative one
Converged_Absolute(cur, prev, thr) ==
  IsFinite(cur) /\ IsFinite(prev) /\ FLess(FAbs(FSub(cur, prev)), thr)
\* line 151: np.abs(cur / prev - 1) < threshold; a comparison with nan or
\* inf - 1 is false, and a finite cur over -inf is 0
Converged(cur, prev, thr) ==
  IF IsFinite(cur) /\ IsFinite(prev)
    THEN prev # Zero /\ FLess(FAbs(FSub(FDiv(cur, prev), One)), thr)
    ELSE IsFinite(cur) /\ prev = NegInf /\ FLess(One, thr)


(***************************************************************************)
(* gmm.py in exact arithmetic: the responsibilities and the mixing weights *)
(* as fractions of the elements pi_k * N_k(x_i), here whole numbers        *)
(***************************************************************************)
\* a fraction <<numerator, denominator>> in lowest terms; 0/0 is QNaN
QNaN == <<0, 0>>
RECURSIVE GCD(_, _)
GCD(a, b) == IF b = 0 THEN a ELSE GCD(b, a % b)
Q(a, b) ==
  IF b = 0 THEN QNaN
  ELSE LET g == GCD(Abs(a), Abs(b))
       IN IF b > 0 THEN <<a \div g, b \div g>> ELSE <<(-a) \div g, (-b) \div g>>
QAdd(x, y) ==
  IF x = QNaN \/ y = QNaN THEN QNaN ELSE Q(x[1] * y[2] + y[1] * x[2], x[2] * y[2])
RECURSIVE QSumFrom(_, _)
QSumFrom(s, i) == IF i = 0 THEN Q(0, 1) ELSE QAdd(QSumFrom(s, i - 1), s[i])
\* np.sum / ndarray.sum of a sequence of fractions
QSum(s) == QSumFrom(s, Len(s))
RECURSIVE IntSumFrom(_, _)
IntSumFrom(s, i) == IF i = 0 THEN 0 ELSE IntSumFrom(s, i - 1) + s[i]

\* np.sum(elements) without axis=0: one total over all points
Total_AllAxes(elements, i) ==
  IntSumFrom([k \in 1 .. Len(elements) |->
                IntSumFrom(elements[k], Len(elements[k]))], Len(elements))
\* line 92: np.sum(elements, axis=0) at point i
Total(elements, i) ==
  IntSumFrom([k \in 1 .. Len(elements) |-> elements[k][i]], Len(elements))
\* line 92: elements[k] / np.sum(elements, axis=0) at point i
ExactRespons(elements, k, i) == Q(elements[k][i], Total(elements, i))
\* line 117: pi_k = Nk / N
ExactMixWeight(Nk, N) == IF Nk = QNaN THEN QNaN ELSE Q(Nk[1], Nk[2] * N)


(***************************************************************************)
(* The state of sim_anneal, of apply_em and of the exact E/M step          *)
(***************************************************************************)
\* sim_anneal: its arguments, locals and position
VARIABLES
  proposal, seed, xcur, xnew, n_proposed_points, T, x_hist, prob_hist,
  temp_hist, nreject, iis, Ecur, Enew, deltaE, p_accept, test, pc

saVars ==
  <<proposal, seed, xcur, xnew, n_proposed_points, T, x_hist, prob_hist,
    temp_hist, nreject, iis, Ecur, Enew, deltaE, p_accept, test, pc>>

\* apply_em: its arguments, locals and position
VARIABLES
  X, pi, mu, Sigma, threshold, log_likelihood, hist_log_likelihood,
  hist_coeffs, hist_responsibilities, num_iterations, responsibilities,
  results, epc

emVars ==
  <<X, pi, mu, Sigma, threshold, log_likelihood, hist_log_likelihood,
    hist_coeffs, hist_responsibilities, num_iterations, responsibilities,
    results, epc>>

\* the exact E/M step: the elements, resp_k(X) and pi of every component
VARIABLES wElements, wResp, wPi, wpc

wVars == <<wElements, wResp, wPi, wpc>>

vars == <<saVars, emVars, wVars>>

\* sim_anneal has not been called
SAIdle ==
  /\ proposal = ""
  /\ seed = 0
  /\ xcur = Unbound
  /\ xnew = Unbound
  /\ n_proposed_points = 0
  /\ T = 0
  /\ x_hist = <<>>
  /\ prob_hist = <<>>
  /\ temp_hist = <<>>
  /\ nreject = 0
  /\ iis = 0
  /\ Ecur = Unbound
  /\ Enew = Unbound
  /\ deltaE = Unbound
  /\ p_accept = Unbound
  /\ test = Unbound
  /\ pc = "idle"

\* apply_em has not been called
EMIdle ==
  /\ X = <<>>
  /\ pi = <<>>
  /\ mu = <<>>
  /\ Sigma = <<>>
  /\ threshold = Zero
  /\ log_likelihood = Zero
  /\ hist_log_likelihood = <<>>
  /\ hist_coeffs = <<>>
  /\ hist_responsibilities = <<>>
  /\ num_iterations = 0
  /\ responsibilities = <<>>
  /\ results = <<>>
  /\ epc = "idle"

\* the exact E/M step has not been started
WIdle ==
  /\ wElements = <<>>
  /\ wResp = <<>>
  /\ wPi = <<>>
  /\ wpc = "idle"

\* lines 99-106: the start cell
x_start(s) ==
  <<astype_int(floor(uniform(split(s)[1], 0, 100 * Micro))),
    astype_int(floor(uniform(split(s)[2], 0, 100 * Micro)))>>

\* lines 98-118: the state of sim_anneal(proposal, seed=s) on reaching the loop
SAStart(p, s) ==
  /\ proposal = p
  /\ seed = s
  /\ xcur = x_start(s)
  /\ xnew = Unbound
  /\ n_proposed_points = 0
  /\ T = T_start
  /\ x_hist = <<x_start(s)>>
  /\ prob_hist = <<>>
  /\ temp_hist = <<>>
  /\ nreject = 0
  /\ iis = 0
  /\ Ecur = Unbound
  /\ Enew = Unbound
  /\ deltaE = Unbound
  /\ p_accept = Unbound
  /\ test = Unbound
  /\ pc = "loop"

\* lines 123-129 and 137: the uniform proposal; only the first coordinate is floored
UniformProposal(key) ==
  LET seeds == split(key)
  IN <<astype_int(floor(uniform(seeds[1], 0, 100 * Micro))),
       astype_int(uniform(seeds[2], 0, 100 * Micro))>>

\* variant of GaussianCoord without line 134 (C7 depends on the upper clamp)
GaussianCoord_NoUpperClamp(cur, key, i) ==
  astype_int(Max(cur * Micro + normal(key, i) * sigma * Milli, 0))
\* lines 132-134 and 137: one coordinate of the gaussian proposal
GaussianCoord(cur, key, i) ==
  LET moved == cur * Micro + normal(key, i) * sigma * Milli
      lower == Max(moved, 0)
      upper == Min(lower, 99 * Micro)
  IN astype_int(upper)
GaussianProposal(cur, key) ==
  <<GaussianCoord(cur[1], key, 0), GaussianCoord(cur[2], key, 1)>>

\* variant of LoopTest with an off-by-one bound (C6 depends on the strict test)
LoopTest_Inclusive(np) == np <= n_samples
\* line 119: the loop test
LoopTest(np) == np < n_samples

\* variant of Branch without the final else: any other name is treated as
\* "gaussian" (C5 depends on the raise)
Branch_NoElse(p) == IF p = "uniform" THEN "uniform" ELSE "gaussian"
\* lines 122, 131, 135: the branch the proposal name selects
Branch(p) ==
  IF p = "uniform" THEN "uniform"
  ELSE IF p = "gaussian" THEN "gaussian"
  ELSE "raise"

\* lines 119-137: the loop test, the new seed and the proposal (or the raise)
Propose ==
  /\ pc = "loop"
  /\ LoopTest(n_proposed_points)
  /\ seed' = split(seed)[2]
  /\ n_proposed_points' = n_proposed_points + 1
  /\ IF Branch(proposal) = "uniform"
       THEN xnew' = Bound(UniformProposal(seed')) /\ pc' = "compare"
       ELSE IF Branch(proposal) = "gaussian"
         THEN xnew' = Bound(GaussianProposal(xcur, seed')) /\ pc' = "compare"
         ELSE xnew' = xnew /\ pc' = "raised"
  /\ UNCHANGED <<proposal, xcur, T, x_hist, prob_hist, temp_hist, nreject, iis,
                 Ecur, Enew, deltaE, p_accept, test>>
  /\ UNCHANGED <<emVars, wVars>>

\* variant of Cool with a linear schedule T - (1 - alpha) (C2 depends on the
\* multiplication)
Cool_Linear(t) == t - (alpha_den - alpha_num) * (TUnit \div alpha_den)
\* line 146: T = alpha * T, rounded to the nearest 1/TUnit
Cool(t) == (alpha_num * t + alpha_den \div 2) \div alpha_den

\* variant of Recorded with lines 145 and 146 swapped: the decayed temperature
\* is recorded (C9 depends on the order)
Recorded_AfterDecay(t) == Cool(t)
\* line 145: the temperature appended to temp_hist, t being T on entry
Recorded(t) == t

\* lines 139-146: the two energies, then the temperature is recorded and decayed
Compare ==
  /\ pc = "compare"
  /\ Ecur' = Bound(energy(xcur[1], xcur[2]))
  /\ Enew' = Bound(energy(Val(xnew)[1], Val(xnew)[2]))
  /\ deltaE' = Bound(Val(Enew') - Val(Ecur'))
  /\ temp_hist' = Append(temp_hist, Recorded(T))
  /\ T' = Cool(T)
  /\ pc' = "accept"
  /\ UNCHANGED <<proposal, seed, xcur, xnew, n_proposed_points, x_hist,
                 prob_hist, nreject, iis, p_accept, test>>
  /\ UNCHANGED <<emVars, wVars>>

\* variant of Boltzmann without the minus sign (C1 depends on it)
Boltzmann_NoMinus(dE, t) == Exp(QuotT(dE * TUnit, t))
\* line 147: exp(-1.0 * deltaE / T), dE in 1/Milli and t in 1/TUnit
Boltzmann(dE, t) == Exp(QuotT((-dE) * TUnit, t))
\* lines 147-149
AcceptProb(dE, t) == Min(Micro, Boltzmann(dE, t))
\* line 152
Accepts(u, p) == u <= p

\* lines 147-159: the Metropolis test and the histories
Accept ==
  /\ pc = "accept"
  /\ p_accept' = Bound(AcceptProb(Val(deltaE), T))
  /\ test' = Bound(uniform(split(seed)[1], 0, Micro))
  /\ IF Accepts(Val(test'), Val(p_accept'))
       THEN xcur' = Val(xnew) /\ iis' = iis + 1 /\ nreject' = nreject
       ELSE xcur' = xcur /\ iis' = iis /\ nreject' = nreject + 1
  /\ x_hist' = Append(x_hist, xcur')
  /\ prob_hist' = Append(prob_hist, pdf(xcur'[1], xcur'[2]))
  /\ pc' = "loop"
  /\ UNCHANGED <<proposal, seed, xnew, n_proposed_points, T, temp_hist,
                 Ecur, Enew, deltaE>>
  /\ UNCHANGED <<emVars, wVars>>

\* lines 161-163: the loop is left and the histories are returned
Return ==
  /\ pc = "loop"
  /\ ~LoopTest(n_proposed_points)
  /\ n_proposed_points' = n_proposed_points + 1
  /\ pc' = "returned"
  /\ UNCHANGED <<proposal, seed, xcur, xnew, T, x_hist, prob_hist, temp_hist,
                 nreject, iis, Ecur, Enew, deltaE, p_accept, test>>
  /\ UNCHANGED <<emVars, wVars>>

InitSA ==
  /\ \E p \in Proposals, s \in 0 .. NumSeeds - 1 : SAStart(p, s)
  /\ EMIdle
  /\ WIdle
NextSA == Propose \/ Compare \/ Accept \/ Return
SpecSA == InitSA /\ [][NextSA]_vars

\* sequential execution: a step that can be taken is eventually taken
SpecSAFair == SpecSA /\ WF_vars(NextSA)

(***************************************************************************)
(* gmm.py: apply_em                                                        *)
(***************************************************************************)
\* the points of the data sets lie on 0 .. MaxCoord
MaxCoord == 2
\* number of points of a data set
NumPoints == 3
\* apply_em is followed for at most MaxIter iterations
MaxIter == 6
\* threshold is 10^-j for some j in 1 .. MaxThreshold
MaxThreshold == 3
\* the first initial weight is 2^-j for some j in 1 .. MaxWeightExp
MaxWeightExp == 2

\* the data sets: NumPoints integer points in non-decreasing order
DataSets ==
  {d \in [1 .. NumPoints -> 0 .. MaxCoord] :
     \A i \in 1 .. NumPoints - 1 : d[i] <= d[i + 1]}
Floats(d) == Eager([i \in 1 .. Len(d) |-> FromInt(d[i])])

\* lines 133-139: apply_em(X, pi, mu, Sigma, threshold) on reaching the loop
EMStart(data, w, m, S, thr) ==
  /\ X = data
  /\ pi = w
  /\ mu = m
  /\ Sigma = S
  /\ threshold = thr
  /\ hist_responsibilities = <<Call(compute_responsibilities(1, w, m, S), data)>>
  /\ log_likelihood = gmm_log_likelihood(data, w, m, S)
  /\ hist_log_likelihood = <<log_likelihood>>
  /\ hist_coeffs = <<<<w, m, S>>>>
  /\ num_iterations = 0
  /\ responsibilities = <<>>
  /\ results = <<>>
  /\ epc = "loop"

\* lines 141-143
EStep ==
  /\ epc = "loop"
  /\ num_iterations < MaxIter
  /\ num_iterations' = num_iterations + 1
  /\ responsibilities' = e_step(pi, mu, Sigma)
  /\ epc' = "mstep"
  /\ UNCHANGED <<X, pi, mu, Sigma, threshold, log_likelihood, hist_log_likelihood,
                 hist_coeffs, hist_responsibilities, results>>
  /\ UNCHANGED <<saVars, wVars>>

\* line 144: pi, mu, Sigma = new
Assign(new) == pi' = new[1] /\ mu' = new[2] /\ Sigma' = new[3]
MStep ==
  /\ epc = "mstep"
  /\ Assign(m_step(X, responsibilities))
  /\ epc' = "loglik"
  /\ UNCHANGED <<X, threshold, log_likelihood, hist_log_likelihood, hist_coeffs,
                 hist_responsibilities, num_iterations, responsibilities, results>>
  /\ UNCHANGED <<saVars, wVars>>

\* the responsibilities under the parameters the M-step has just returned
RecordedResp_Fresh(resps, data) == Call(compute_responsibilities(1, pi, mu, Sigma), data)
\* line 148: responsibilities[0](X), the closure e_step made before the M-step
RecordedResp(resps, data) == Call(resps[1], data)

\* lines 145-149: the log-likelihood (or the raise) and the three histories
Record ==
  /\ epc = "loglik"
  /\ IF Raises(mu, Sigma)
       THEN /\ epc' = "raised"
            /\ UNCHANGED <<log_likelihood, hist_log_likelihood, hist_coeffs,
                           hist_responsibilities>>
       ELSE /\ log_likelihood' = gmm_log_likelihood(X, pi, mu, Sigma)
            /\ hist_coeffs' = Append(hist_coeffs, <<pi, mu, Sigma>>)
            /\ hist_responsibilities' =
                 Append(hist_responsibilities, RecordedResp(responsibilities, X))
            /\ hist_log_likelihood' = Append(hist_log_likelihood, log_likelihood')
            /\ epc' = "test"
  /\ UNCHANGED <<X, pi, mu, Sigma, threshold, num_iterations, responsibilities,
                 results>>
  /\ UNCHANGED <<saVars, wVars>>

\* lines 151-153
Test ==
  /\ epc = "test"
  /\ epc' = IF Converged(hist_log_likelihood[Len(hist_log_likelihood)],
                         hist_log_likelihood[Len(hist_log_likelihood) - 1],
                         threshold)
              THEN "break" ELSE "loop"
  /\ UNCHANGED <<X, pi, mu, Sigma, threshold, log_likelihood, hist_log_likelihood,
                 hist_coeffs, hist_responsibilities, num_iterations,
                 responsibilities, results>>
  /\ UNCHANGED <<saVars, wVars>>

\* lines 155-161
ReturnEM ==
  /\ epc = "break"
  /\ results' = [coeffs |-> hist_coeffs, rvals |-> hist_responsibilities,
                 logl |-> hist_log_likelihood, num_iterations |-> num_iterations]
  /\ epc' = "returned"
  /\ UNCHANGED <<X, pi, mu, Sigma, threshold, log_likelihood, hist_log_likelihood,
                 hist_coeffs, hist_responsibilities, num_iterations,
                 responsibilities>>
  /\ UNCHANGED <<saVars, wVars>>

\* the initial weights: pi = (2^-j, 1 - 2^-j), the equal priors of line 170 for j = 1
Priors == {<<Fl(1, -j), FSub(One, Fl(1, -j))>> : j \in 1 .. MaxWeightExp}
\* lines 168-175: K = 2, the means two of the data points, identity covariances
InitEM ==
  /\ SAIdle
  /\ WIdle
  /\ \E d \in DataSets, i \in 1 .. NumPoints, j \in 1 .. NumPoints,
          w \in Priors, t \in 1 .. MaxThreshold :
       EMStart(Floats(d), w, <<FromInt(d[i]), FromInt(d[j])>>,
               <<One, One>>, FDiv(One, FromInt(10^t)))
NextEM == EStep \/ MStep \/ Record \/ Test \/ ReturnEM
SpecEM == InitEM /\ [][NextEM]_vars

(***************************************************************************)
(* gmm.py: one E-step and M-step in exact arithmetic                       *)
(***************************************************************************)
\* components, points and size of an element of the exact model
MaxK == 2
MaxN == 2
MaxElem == 2

\* the elements of K components at N points
WStart(e) ==
  /\ wElements = e
  /\ wResp = <<>>
  /\ wPi = <<>>
  /\ wpc = "e_step"

\* lines 97-102 and 109: resp_k(X) of every component
WEStep ==
  /\ wpc = "e_step"
  /\ wResp' = [k \in 1 .. Len(wElements) |->
                 [i \in 1 .. Len(wElements[k]) |-> ExactRespons(wElements, k, i)]]
  /\ wpc' = "m_step"
  /\ UNCHANGED <<wElements, wPi>>
  /\ UNCHANGED <<saVars, emVars>>

\* lines 110 and 117: Nk and pi_k of every component
WMStep ==
  /\ wpc = "m_step"
  /\ wPi' = [k \in 1 .. Len(wResp) |->
               ExactMixWeight(QSum(wResp[k]), Len(wResp[k]))]
  /\ wpc' = "done"
  /\ UNCHANGED <<wElements, wResp>>
  /\ UNCHANGED <<saVars, emVars>>

InitW ==
  /\ SAIdle
  /\ EMIdle
  /\ \E K \in 1 .. MaxK, N \in 1 .. MaxN :
       \E e \in [1 .. K -> [1 .. N -> 0 .. MaxElem]] : WStart(e)
NextW == WEStep \/ WMStep
SpecW == InitW /\ [][NextW]_vars

(***************************************************************************)
(* sim_anneal: properties                                                  *)
(***************************************************************************)
Grid == 0 .. 99
Known == {"uniform", "gaussian"}
\* C1: in every iteration p_accept is 1 when deltaE < 0 and otherwise
\* exp(-deltaE/T) clamped to [0, 1]; the walker moves to xnew exactly when
\* test <= p_accept, so a proposal of lower energy is always accepted.
C1_AcceptanceRule ==
  [][pc = "accept" =>
       LET dE == Val(deltaE)
           p == Val(p_accept')
           moved == xcur' = Val(xnew) /\ iis' = iis + 1 /\ nreject' = nreject
           stayed == xcur' = xcur /\ iis' = iis /\ nreject' = nreject + 1
       IN /\ dE < 0 => p = Micro
          /\ dE >= 0 => p = Max(0, Min(Micro, Exp(QuotT((-dE) * TUnit, T))))
          /\ 0 <= p /\ p <= Micro
          /\ (Val(test') <= p) <=> moved
          /\ (Val(test') > p) <=> stayed
          /\ dE < 0 => moved]_saVars
\* a proposal of strictly lower energy has just been accepted into a new cell
C1_Witness ==
  /\ pc = "loop" /\ deltaE # Unbound /\ Val(deltaE) < 0
  /\ Val(p_accept) = Micro /\ xcur = Val(xnew) /\ iis > 0
  /\ x_hist[Len(x_hist) - 1] # xcur

\* C2: T starts at 1 and every iteration multiplies it by alpha = 0.99, so it
\* stays strictly positive and temp_hist[i+1] = 0.99 * temp_hist[i] < temp_hist[i].
C2_GeometricCooling ==
  /\ T > 0
  /\ n_proposed_points = 0 => T = T_start
  /\ temp_hist # <<>> => temp_hist[1] = T_start
  /\ \A i \in 1 .. Len(temp_hist) - 1 :
       /\ 2 * Abs(100 * temp_hist[i + 1] - 99 * temp_hist[i]) <= 100
       /\ temp_hist[i + 1] < temp_hist[i]
  /\ temp_hist # <<>> /\ pc # "compare" =>
       /\ 2 * Abs(100 * T - 99 * temp_hist[Len(temp_hist)]) <= 100
       /\ T < temp_hist[Len(temp_hist)]
C2_Witness == pc = "returned" /\ Len(temp_hist) = 300 /\ T < TUnit \div 20

\* C5: an unrecognized proposal name raises ValueError in the first iteration,
\* before any energy is compared or any accept/reject step is made, and no
\* histories are returned; "uniform" and "gaussian" never raise.
C5_UnknownProposalRaises ==
  /\ proposal \notin Known =>
       /\ pc \in {"loop", "raised"}
       /\ pc = "loop" => n_proposed_points = 0 /\ ENABLED Propose
       /\ pc = "raised" => n_proposed_points = 1
       /\ Ecur = Unbound /\ Enew = Unbound /\ deltaE = Unbound
       /\ p_accept = Unbound /\ test = Unbound
       /\ temp_hist = <<>> /\ prob_hist = <<>> /\ Len(x_hist) = 1
       /\ iis = 0 /\ nreject = 0
  /\ proposal \in Known => pc # "raised"
C5_Witness == pc = "raised" /\ proposal \notin Known /\ n_proposed_points = 1

\* C6: with a recognized proposal sim_anneal always returns, after exactly 300
\* proposals: temp_hist and prob_hist hold 300 entries, x_hist 301 positions,
\* and accepted plus rejected proposals are 300.
C6_SampleBudget ==
  /\ [](pc = "returned" =>
          /\ Len(temp_hist) = 300 /\ Len(prob_hist) = 300 /\ Len(x_hist) = 301
          /\ iis + nreject = 300)
  /\ [](pc \in {"loop", "compare", "accept"} =>
          /\ Len(temp_hist) <= 300
          /\ iis + nreject = Len(prob_hist) /\ Len(x_hist) = Len(prob_hist) + 1)
  /\ [](proposal \in Known => <>(pc = "returned"))
\* a run that both accepted and rejected proposals has returned
C6_Witness ==
  pc = "returned" /\ iis > 0 /\ nreject > 0 /\ Len(prob_hist) = 300

\* C7: xcur and every proposed xnew are integer cells with both coordinates in
\* 0..99, for the start cell, for clamped gaussian proposals and for uniform
\* proposals whose second coordinate is cast without being floored.
InGrid(x) == x[1] \in Grid /\ x[2] \in Grid
C7_WalkerInGrid ==
  /\ InGrid(xcur)
  /\ xnew # Unbound => InGrid(Val(xnew))
  /\ \A i \in 1 .. Len(x_hist) : InGrid(x_hist[i])
\* a gaussian proposal that left the grid on the upper side and was clamped to 99
C7_Witness ==
  /\ pc = "compare" /\ proposal = "gaussian"
  /\ xcur[1] * Micro + normal(seed, 0) * sigma * Milli > 99 * Micro
  /\ Val(xnew)[1] = 99

\* C9: temp_hist[i] (0-based) is 0.99^i, recorded before the decay, while the
\* acceptance test of the same iteration uses alpha * temp_hist[i]; the start
\* temperature itself is never used in an acceptance test.
C9_RecordThenDecay ==
  /\ temp_hist # <<>> => temp_hist[1] = T_start
  /\ \A i \in 1 .. Len(temp_hist) - 1 : temp_hist[i + 1] = Cool(temp_hist[i])
  /\ pc = "accept" =>
       /\ Len(temp_hist) = n_proposed_points
       /\ T = Cool(temp_hist[n_proposed_points])
       /\ T < T_start
  /\ pc = "loop" /\ p_accept # Unbound =>
       /\ Len(temp_hist) = n_proposed_points
       /\ Val(p_accept) =
            Min(Micro, Exp(QuotT((-Val(deltaE)) * TUnit,
                                 Cool(temp_hist[n_proposed_points]))))
\* an acceptance probability strictly inside (0, 1) that the start temperature
\* would have given a different value
C9_Witness ==
  /\ pc = "loop" /\ p_accept # Unbound
  /\ 0 < Val(p_accept) /\ Val(p_accept) < Micro
  /\ n_proposed_points = 1
  /\ Val(p_accept) # Min(Micro, Exp(QuotT((-Val(deltaE)) * TUnit, temp_hist[1])))

(***************************************************************************)
(* apply_em: properties                                                    *)
(***************************************************************************)
\* the log-likelihoods recorded so far, results['logl'] on return
logl == hist_log_likelihood

\* C3: the mixing weights pi returned by m_step sum to 1, because the
\* responsibilities of every data point sum to 1 over the components, for
\* any number of components and any data at whose every point some density
\* is not zero (in exact arithmetic).
SomeDensity ==
  \A i \in 1 .. Len(wElements[1]) : \E k \in 1 .. Len(wElements) : wElements[k][i] > 0
FLeq(a, b) == FSub(a, b)[1] <= 0
RoundingSlack == Fl(1, 4 - MantBits)
\* a <= b up to rounding
FLeqRounded(a, b) == FLeq(a, FAdd(b, FMul(RoundingSlack, FAbs(a))))
RelChangeBelow(t) ==
  /\ IsFinite(logl[t]) /\ IsFinite(logl[t + 1]) /\ logl[t] # Zero
  /\ FLess(FAbs(FSub(FDiv(logl[t + 1], logl[t]), One)), threshold)
\* C8: apply_em performs at least one E/M pair and stops at exactly the first
\* iteration whose relative change of the log-likelihood is below threshold:
\* no earlier pair of entries passes the test, the loop goes on only when the
\* last pair fails it, and it is left only when the last pair passes it; on
\* return num_iterations counts the E/M pairs and coeffs, rvals and logl have
\* num_iterations + 1 entries each.
C8_StopsAtFirstConvergence ==
  /\ \A t \in 1 .. Len(logl) - 2 : ~RelChangeBelow(t)
  /\ (epc = "loop" /\ num_iterations >= 1) => ~RelChangeBelow(Len(logl) - 1)
  /\ epc \in {"break", "returned"} =>
       /\ num_iterations >= 1
       /\ RelChangeBelow(Len(logl) - 1)
  /\ epc \in {"loop", "test", "break", "returned"} =>
       /\ Len(hist_coeffs) = num_iterations + 1
       /\ Len(hist_responsibilities) = num_iterations + 1
       /\ Len(logl) = num_iterations + 1
  /\ epc = "returned" =>
       /\ results.num_iterations = num_iterations
       /\ results.coeffs = hist_coeffs
       /\ results.rvals = hist_responsibilities
       /\ results.logl = logl
\* a run that returns after three or more iterations
C8_Witness ==
  /\ epc = "returned"
  /\ results.num_iterations >= 3
  /\ Len(results.logl) = results.num_iterations + 1

\* component 0's responsibilities of the data under the parameters c
UnderCoeffs(c) == Call(compute_responsibilities(1, c[1], c[2], c[3]), X)
\* C10: every recorded rvals[t], t >= 1, is the responsibility of component 0
\* under coeffs[t-1], so rvals[1] = rvals[0] and the last entry is the one
\* under coeffs[-2].
C10_ResponsibilitiesLag ==
  /\ \A t \in 2 .. Len(hist_responsibilities) :
       hist_responsibilities[t] = UnderCoeffs(hist_coeffs[t - 1])
  /\ Len(hist_responsibilities) >= 2 =>
       hist_responsibilities[2] = hist_responsibilities[1]
\* a returned run whose last rvals entry differs from the responsibilities
\* under the final parameters
C10_Witness ==
  /\ epc = "returned"
  /\ Len(results.rvals) >= 3
  /\ results.rvals[Len(results.rvals)] =
       UnderCoeffs(results.coeffs[Len(results.coeffs) - 1])
  /\ results.rvals[Len(results.rvals)] #
       UnderCoeffs(results.coeffs[Len(results.coeffs)])
====
